---- MODULE Spec2Model ----
(***************************************************************************)
(* Exact-cover solver (Algorithm X over Dancing Links) and the polyomino   *)
(* packing encoder of aoc2025.                                             *)
(*                                                                         *)
(* The matrix is an arena of nodes addressed by index.  Node 0 is the root *)
(* header (DancingLinks.header); every ColumnHeader and Node object made   *)
(* afterwards gets the next free index.  The object fields up, down, left, *)
(* right, column, row_id are functions over the node indices; size, name   *)
(* and is_primary are functions over the indices of ColumnHeader objects.  *)
(***************************************************************************)
EXTENDS Integers, Sequences, FiniteSets, TLC

\* ------------------------------------------------------------------ bounds
MaxCols == 3
MaxRows == 3
MaxRowLen == 3
MaxNodes == 6
MaxAbandoned == 1
\* Pattern texts are at most PatW characters wide and PatH lines high.
PatW == 2
PatH == 2
MaxShapes == 2
MaxCount == 2
MaxW == 3
MaxH == 2
ShapeW == 3
ShapeH == 2
MaxRun == 4
MaxRepeat == 1
MaxShift == 1
\* The items put into a DisjointSet are 1 .. MaxElems; a caller stops once a
\* rank has reached MaxRank.
MaxElems == 3
MaxRank == 2

\* The column names the callers use, in the order the columns are added.
ColumnNames == <<"a", "b", "c", "d", "e">>

\* Python's None.
None == -1

VARIABLES
    dlx,        \* the DancingLinks object
    phase,      \* "build" while the caller adds columns and rows, then "use"
    gen,        \* the iterator returned by solve(), or NoGen
    pre,        \* the matrix as it was when the current solve()/has_solution() was called
    emitted,    \* what the current iterator has yielded so far
    result,     \* the last return value of has_solution(), or "none"
    last,       \* the last operation performed
    covered,    \* columns covered by direct _cover calls and not yet uncovered (a stack)
    snaps,      \* the matrix before each of those _cover calls
    expect,     \* the matrix before the last direct _cover, or before the _cover
                \* that the last direct _uncover undid
    built,      \* the matrix as the add_column/add_row calls left it
    hist,       \* one record per abandoned solve() iterator: its first solution
    packer,     \* the PolyominoPacker object, or NoPacker
    region,     \* the Region last passed to the packer
    packed,     \* what the packer's last call returned or raised
    shape,      \* the Polyomino a caller holds, or NoShape
    shapeCall,  \* the last Polyomino call: its name, its argument and how it ended
    ds,         \* the DisjointSet object: its parents and ranks dicts
    held,       \* the items of the Subset handles the caller has been given
    joined,     \* the pairs of items the unions made so far have joined
    setCall     \* the last DisjointSet/Subset call and how it ended

dlxVars == <<dlx, phase, gen, pre, emitted, result, last, covered, snaps, expect,
             built, hist>>
packVars == <<packer, region, packed>>
shapeVars == <<shape, shapeCall>>
setVars == <<ds, held, joined, setCall>>
vars == <<dlxVars, packVars, shapeVars, setVars>>

\* ------------------------------------------------------------------ matrix

Root == 0

\* DancingLinks.__init__: the root header, self-linked by Node.__post_init__.
NewMatrix ==
    [ up |-> (Root :> Root), down |-> (Root :> Root),
      left |-> (Root :> Root), right |-> (Root :> Root),
      column |-> (Root :> None), row_id |-> (Root :> -1),
      size |-> (Root :> 0), name |-> (Root :> "root"), is_primary |-> (Root :> TRUE),
      columns |-> <<>>, rows |-> <<>>, row_counter |-> 0 ]

\* The index the next allocated object gets.
NextNode(m) == Cardinality(DOMAIN m.up)

\* Node(column=col, row_id=rid) allocated at index n; Node.__post_init__
\* links the new object to itself in all four directions.
NewNode(m, n, col, rid) ==
    [m EXCEPT !.up = @ @@ (n :> n), !.down = @ @@ (n :> n),
              !.left = @ @@ (n :> n), !.right = @ @@ (n :> n),
              !.column = @ @@ (n :> col), !.row_id = @ @@ (n :> rid)]

\* col = ColumnHeader(name=name, is_primary=primary); col.column = col
NewHeader(m, col, nm, primary) ==
    [NewNode(m, col, col, -1) EXCEPT !.size = @ @@ (col :> 0), !.name = @ @@ (col :> nm),
                                     !.is_primary = @ @@ (col :> primary)]

\* col.right = self.header
ColRightIsHeader(m, col) == [m EXCEPT !.right[col] = Root]
\* col.left = self.header.left
ColLeftIsLast(m, col) == [m EXCEPT !.left[col] = m.left[Root]]
\* add_column with "self.header.left.right = col" left out.
LastRightIsColSkipped(m, col) == m

\* self.header.left.right = col
LastRightIsCol(m, col) == [m EXCEPT !.right[m.left[Root]] = col]
\* self.header.left = col
HeaderLeftIsCol(m, col) == [m EXCEPT !.left[Root] = col]
\* self.columns[name] = col
RegisterColumn(m, nm, col) == [m EXCEPT !.columns = (nm :> col) @@ @]

AddColumnAt(m, col, nm, primary) ==
    RegisterColumn(
        HeaderLeftIsCol(
            LastRightIsCol(
                ColLeftIsLast(
                    ColRightIsHeader(NewHeader(m, col, nm, primary), col), col), col), col),
        nm, col)

\* DancingLinks.add_column
add_column(m, nm, primary) == AddColumnAt(m, NextNode(m), nm, primary)

\* node.down = col
NodeDownIsCol(m, node, col) == [m EXCEPT !.down[node] = col]
\* node.up = col.up
NodeUpIsBottom(m, node, col) == [m EXCEPT !.up[node] = m.up[col]]
\* add_row with "col.up.down = node" left out.
BottomDownIsNodeSkipped(m, node, col) == m

\* col.up.down = node
BottomDownIsNode(m, node, col) == [m EXCEPT !.down[m.up[col]] = node]
\* col.up = node
ColUpIsNode(m, node, col) == [m EXCEPT !.up[col] = node]
\* col.size += 1
IncSize(m, col) == [m EXCEPT !.size[col] = @ + 1]

\* "Vertical linking: insert at bottom of column"
LinkVertical(m, node, col, rid) ==
    IncSize(
        ColUpIsNode(
            BottomDownIsNode(
                NodeUpIsBottom(
                    NodeDownIsCol(NewNode(m, node, col, rid), node, col), node, col),
                node, col),
            node, col),
        col)

\* node.left = prev_node; prev_node.right = node
LinkHorizontal(m, node, prev_node) ==
    [m EXCEPT !.left[node] = prev_node, !.right[prev_node] = node]

\* The body of add_row's loop for one column name; st carries the matrix and
\* the locals first_node and prev_node.
AddRowNodeAt(st, node, col, rid) ==
    IF st.first_node = None
    THEN [m |-> LinkVertical(st.m, node, col, rid), first_node |-> node, prev_node |-> node]
    ELSE [m |-> LinkHorizontal(LinkVertical(st.m, node, col, rid), node, st.prev_node),
          first_node |-> st.first_node, prev_node |-> node]

AddRowNode(st, col_name, rid) ==
    AddRowNodeAt(st, NextNode(st.m), st.m.columns[col_name], rid)

\* (The test on row_counter, which is never negative, has the matrix
\* evaluated before the loop goes on.)
RECURSIVE AddRowLoop(_, _, _)
AddRowLoop(st, column_names, rid) ==
    IF column_names = <<>> \/ st.m.row_counter < 0 THEN st
    ELSE AddRowLoop(AddRowNode(st, Head(column_names), rid), Tail(column_names), rid)

\* "Close the horizontal circular list"
CloseRow(st) ==
    IF st.first_node # None /\ st.prev_node # None
    THEN [st.m EXCEPT !.right[st.prev_node] = st.first_node,
                      !.left[st.first_node] = st.prev_node]
    ELSE st.m

\* row_id = self._row_counter; self._row_counter += 1; self.rows[row_id] = row_data
NewRow(m, row_data) ==
    [m EXCEPT !.row_counter = @ + 1, !.rows = (m.row_counter :> row_data) @@ @]

\* DancingLinks.add_row; the returned row id is the old row_counter.
add_row(m, column_names, row_data) ==
    CloseRow(AddRowLoop([m |-> NewRow(m, row_data), first_node |-> None, prev_node |-> None],
                        column_names, m.row_counter))

\* _cover with "row_node.right.left = row_node.left" in place of
\* "row_node.down.up = row_node.up".
UnlinkFromRight(m, row_node) == [m EXCEPT !.left[m.right[row_node]] = m.left[row_node]]

\* row_node.down.up = row_node.up
UnlinkFromBelow(m, row_node) == [m EXCEPT !.up[m.down[row_node]] = m.up[row_node]]
\* _cover with "row_node.up.down = row_node.down" left out.
UnlinkFromAboveSkipped(m, row_node) == m

\* row_node.up.down = row_node.down
UnlinkFromAbove(m, row_node) == [m EXCEPT !.down[m.up[row_node]] = m.down[row_node]]
\* row_node.column.size -= 1
DecSize(m, row_node) == [m EXCEPT !.size[m.column[row_node]] = @ - 1]

\* _cover's inner loop with the size decrement left out.
HideNodeNoSize(m, row_node) == UnlinkFromAbove(UnlinkFromBelow(m, row_node), row_node)

\* The body of _cover's inner loop.
HideNode(m, row_node) == DecSize(UnlinkFromAbove(UnlinkFromBelow(m, row_node), row_node), row_node)

\* _cover's inner loop: unlink every other node of node's row from its column.
RECURSIVE CoverRow(_, _, _)
CoverRowNext(m, node, row_node) == CoverRow(m, node, m.right[row_node])
CoverRow(m, node, row_node) ==
    IF row_node = node THEN m
    ELSE CoverRowNext(HideNode(m, row_node), node, row_node)

\* _cover's outer loop, walking down the column.
RECURSIVE CoverLoop(_, _, _)
CoverLoopNext(m, col, node) == CoverLoop(m, col, m.down[node])
CoverLoop(m, col, node) ==
    IF node = col THEN m
    ELSE CoverLoopNext(CoverRow(m, node, m.right[node]), col, node)

\* col.right.left = col.left
UnlinkColFromRight(m, col) == [m EXCEPT !.left[m.right[col]] = m.left[col]]
\* col.left.right = col.right
UnlinkColFromLeft(m, col) == [m EXCEPT !.right[m.left[col]] = m.right[col]]

CoverFrom(m, col) == CoverLoop(m, col, m.down[col])

\* DancingLinks._cover
cover(m, col) == CoverFrom(UnlinkColFromLeft(UnlinkColFromRight(m, col), col), col)

\* row_node.column.size += 1
RestoreSize(m, row_node) == [m EXCEPT !.size[m.column[row_node]] = @ + 1]
\* row_node.down.up = row_node
RelinkBelow(m, row_node) == [m EXCEPT !.up[m.down[row_node]] = row_node]
\* row_node.up.down = row_node
RelinkAbove(m, row_node) == [m EXCEPT !.down[m.up[row_node]] = row_node]

\* _uncover's inner loop with the size increment left out.
ShowNodeNoSize(m, row_node) == RelinkAbove(RelinkBelow(m, row_node), row_node)

\* The body of _uncover's inner loop.
ShowNode(m, row_node) == RelinkAbove(RelinkBelow(RestoreSize(m, row_node), row_node), row_node)

\* _uncover's inner loop: relink every other node of node's row, walking left.
RECURSIVE UncoverRow(_, _, _)
UncoverRowNext(m, node, row_node) == UncoverRow(m, node, m.left[row_node])
UncoverRow(m, node, row_node) ==
    IF row_node = node THEN m
    ELSE UncoverRowNext(ShowNode(m, row_node), node, row_node)

\* _uncover's outer loop, walking up the column.
RECURSIVE UncoverLoop(_, _, _)
UncoverLoopNext(m, col, node) == UncoverLoop(m, col, m.up[node])
UncoverLoop(m, col, node) ==
    IF node = col THEN m
    ELSE UncoverLoopNext(UncoverRow(m, node, m.left[node]), col, node)

\* _uncover with "col.right.left = col" left out.
RelinkColFromRightSkipped(m, col) == m

\* col.right.left = col
RelinkColFromRight(m, col) == [m EXCEPT !.left[m.right[col]] = col]
\* _uncover with col.left.right = col.right in place of col.left.right = col.
RelinkColFromLeftWrong(m, col) == [m EXCEPT !.right[m.left[col]] = m.right[col]]

\* col.left.right = col
RelinkColFromLeft(m, col) == [m EXCEPT !.right[m.left[col]] = col]

\* DancingLinks._uncover
uncover(m, col) ==
    RelinkColFromLeft(RelinkColFromRight(UncoverLoop(m, col, m.up[col]), col), col)

\* float("inf") of _choose_column.
Inf == 1000000

\* _choose_column's loop testing "col.size <= min_size" in place of "<".
RECURSIVE ChooseLoopLast(_, _, _, _)
ChooseLoopLast(m, col, min_size, best_col) ==
    IF col = Root THEN best_col
    ELSE IF col \in DOMAIN m.size /\ m.is_primary[col] /\ m.size[col] <= min_size
         THEN IF m.size[col] = 0 THEN col
              ELSE ChooseLoopLast(m, m.right[col], m.size[col], col)
         ELSE ChooseLoopLast(m, m.right[col], min_size, best_col)

\* _choose_column's loop without the test "col.is_primary".
RECURSIVE ChooseLoopAny(_, _, _, _)
ChooseLoopAny(m, col, min_size, best_col) ==
    IF col = Root THEN best_col
    ELSE IF col \in DOMAIN m.size /\ m.size[col] < min_size
         THEN IF m.size[col] = 0 THEN col
              ELSE ChooseLoopAny(m, m.right[col], m.size[col], col)
         ELSE ChooseLoopAny(m, m.right[col], min_size, best_col)

\* _choose_column's loop over the header ring.
RECURSIVE ChooseLoop(_, _, _, _)
ChooseLoop(m, col, min_size, best_col) ==
    IF col = Root THEN best_col
    ELSE IF col \in DOMAIN m.size /\ m.is_primary[col] /\ m.size[col] < min_size
         THEN IF m.size[col] = 0 THEN col
              ELSE ChooseLoop(m, m.right[col], m.size[col], col)
         ELSE ChooseLoop(m, m.right[col], min_size, best_col)

\* DancingLinks._choose_column
choose_column(m) == ChooseLoop(m, m.right[Root], Inf, None)

\* ------------------------------------------------------------------ solve()

\* The generator object solve() returns.  While it is suspended at a yield,
\* frames holds the activations of the nested search() generators, outermost
\* first: the innermost is at its yield (pc "yield"), every other one waits
\* in its "yield from search()" (pc "after") with its locals col and row_node.
NoGen == [kind |-> "none"]

NewGen(find_all) ==
    [kind |-> "gen", find_all |-> find_all, started |-> FALSE, done |-> FALSE,
     frames |-> <<>>, solution_stack |-> <<>>, log |-> <<>>]

Frame(col, row_node, pc) == [col |-> col, row_node |-> row_node, pc |-> pc]

Top(g) == g.frames[Len(g.frames)]
Pop(seq) == SubSeq(seq, 1, Len(seq) - 1)
Suspended(g) == g.frames # <<>> /\ Top(g).pc = "yield"

\* The record of the run kept beside the generator: the _cover and _uncover
\* calls search() makes and the pushes and pops of solution_stack, in the
\* order in which they happen.
Logged(g, kind, arg) == [g EXCEPT !.log = Append(@, <<kind, arg>>)]

\* solve() with the "cover all other columns in this row" loop left out.
CoverOthersSkipped(s, row_node, node) == s

\* "Cover all other columns in this row", walking right.  s holds the matrix
\* and the generator.
RECURSIVE CoverOthers(_, _, _)
CoverOthersNext(s, row_node, node) == CoverOthers(s, row_node, s.m.right[node])
CoverOthers(s, row_node, node) ==
    IF node = row_node THEN s
    ELSE CoverOthersNext([m |-> cover(s.m, s.m.column[node]),
                          g |-> Logged(s.g, "cover", s.m.column[node])],
                         row_node, node)

\* solve() with the "uncover in reverse order" loop left out.
UncoverOthersSkipped(s, row_node, node) == s

\* "Uncover in reverse order", walking left.
RECURSIVE UncoverOthers(_, _, _)
UncoverOthersNext(s, row_node, node) == UncoverOthers(s, row_node, s.m.left[node])
UncoverOthers(s, row_node, node) ==
    IF node = row_node THEN s
    ELSE UncoverOthersNext([m |-> uncover(s.m, s.m.column[node]),
                            g |-> Logged(s.g, "uncover", s.m.column[node])],
                           row_node, node)

\* The list a solution is yielded as.
Payloads(m, stack) == [i \in 1..Len(stack) |-> m.rows[stack[i]]]

\* solution_stack.append(row_node.row_id), and this activation waits in its
\* "yield from search()".
SelectRow(g, col, row_node, rid) ==
    [g EXCEPT !.solution_stack = Append(@, rid),
              !.frames = Append(@, Frame(col, row_node, "after")),
              !.log = Append(@, <<"push", rid>>)]

\* The nested search() has returned: the find_all test does nothing, and
\* solution_stack.pop().
UnselectRow(g) ==
    [g EXCEPT !.solution_stack = Pop(@), !.frames = Pop(@),
              !.log = Append(@, <<"pop", g.solution_stack[Len(g.solution_stack)]>>)]

\* search() and the while loop over the rows of its chosen column.  Each
\* gives the matrix and the generator as they are when search() either is
\* suspended at a yield (Suspended) or has returned to its caller.
RECURSIVE Search(_)
RECURSIVE RowLoop(_, _, _, _)

\* The while loop moving on with "row_node = row_node.up".
RowLoopUp(s, col, row_node) == RowLoop(s.m, s.g, col, s.m.up[row_node])

\* The while loop left with "break" in place of "row_node = row_node.down".
RowLoopBreak(s, col, row_node) == RowLoop(s.m, s.g, col, col)

\* row_node = row_node.down
RowLoopNext(s, col, row_node) == RowLoop(s.m, s.g, col, s.m.down[row_node])

\* After "yield from search()": a yield inside suspends this activation too;
\* otherwise the row is popped, its columns are uncovered right to left and
\* the loop moves on.
AfterNested(s, col, row_node) ==
    IF Suspended(s.g) THEN s
    ELSE RowLoopNext(UncoverOthers([m |-> s.m, g |-> UnselectRow(s.g)],
                                   row_node, s.m.left[row_node]),
                     col, row_node)

\* The while loop's test: either select the row and enter the nested
\* search(), or uncover the chosen column and return.
RowLoop(m, g, col, row_node) ==
    IF row_node = col
    THEN [m |-> uncover(m, col), g |-> Logged(g, "uncover", col)]
    ELSE AfterNested(Search(CoverOthers([m |-> m,
                                         g |-> SelectRow(g, col, row_node, m.row_id[row_node])],
                                        row_node, m.right[row_node])),
                     col, row_node)

\* self._cover(col); row_node = col.down
EnterLoop(m, g, col) == RowLoop(m, g, col, m.down[col])

\* search() with its chosen column: yield, return, or cover it and loop.
SearchChosen(m, g, col) ==
    IF col = None
    THEN [m |-> m, g |-> [g EXCEPT !.frames = Append(@, Frame(None, None, "yield"))]]
    ELSE IF m.size[col] = 0
    THEN [m |-> m, g |-> g]
    ELSE EnterLoop(cover(m, col), Logged(g, "cover", col), col)

Search(s) == SearchChosen(s.m, s.g, choose_column(s.m))

\* What next(iterator, None) gives: a yielded list, or the default None when
\* the iterator raises StopIteration.
Yielded(list) == [stop |-> FALSE, list |-> list]
Stopped == [stop |-> TRUE, list |-> <<>>]

\* The outcome of a pull: the yielded solution, or StopIteration once the
\* outermost search() has returned.
Outcome(s) ==
    IF Suspended(s.g)
    THEN [m |-> s.m, g |-> s.g, value |-> Yielded(Payloads(s.m, s.g.solution_stack))]
    ELSE [m |-> s.m, g |-> [s.g EXCEPT !.done = TRUE], value |-> Stopped]

\* A suspended generator is resumed: the activation at the yield returns, and
\* each waiting activation carries on after its "yield from" until one of them
\* yields again or the outermost has returned.
RECURSIVE Unwind(_, _)
UnwindNext(s) == IF Suspended(s.g) THEN s ELSE Unwind(s.m, s.g)
Unwind(m, g) ==
    IF g.frames = <<>> THEN [m |-> m, g |-> g]
    ELSE UnwindNext(AfterNested([m |-> m, g |-> g], Top(g).col, Top(g).row_node))

\* next(iterator): start the generator (solution_stack = [], search()), or
\* resume it after its yield.  A finished generator raises StopIteration.
Resume(m, g) ==
    IF g.done THEN [m |-> m, g |-> g, value |-> Stopped]
    ELSE IF ~g.started
    THEN Outcome(Search([m |-> m, g |-> [g EXCEPT !.started = TRUE, !.solution_stack = <<>>]]))
    ELSE Outcome(Unwind(m, [g EXCEPT !.frames = Pop(@)]))

\* DancingLinks.has_solution: next(self.solve(), None) is not None.  The
\* iterator is dropped after the one pull; search() holds no try/finally, so
\* closing it runs no further statement of search().
\* has_solution testing the truth of the first solution, bool(next(..., None)),
\* in place of "is not None".
FirstPullTruthy(r) == [m |-> r.m, value |-> (r.value # Stopped /\ r.value.list # <<>>)]

FirstPull(r) == [m |-> r.m, value |-> (r.value # Stopped)]
has_solution(m) == FirstPull(Resume(m, NewGen(FALSE)))


\* ------------------------------------------------------------------ callers

Min(a, b) == IF a < b THEN a ELSE b

\* The names of the columns added so far.
Names(m) == DOMAIN m.columns

\* The column lists a caller may pass to add_row: existing names, none twice.
RowChoices(m) ==
    { s \in UNION { [1..k -> Names(m)] : k \in 0..Min(MaxRowLen, Cardinality(Names(m))) } :
        \A i, j \in DOMAIN s : i # j => s[i] # s[j] }

\* The payload the caller attaches to its n-th row.
RowData(n) == 100 + n

NoPacker == [kind |-> "none"]
NoRegion == [kind |-> "none"]
NoCall == [kind |-> "none"]
NoShape == [kind |-> "none"]

\* DisjointSet.__init__
NewDisjointSet == [parents |-> <<>>, ranks |-> <<>>]

Init ==
    /\ dlx = NewMatrix
    /\ phase = "build"
    /\ gen = NoGen
    /\ pre = NewMatrix
    /\ emitted = <<>>
    /\ result = "none"
    /\ last = "idle"
    /\ covered = <<>>
    /\ snaps = <<>>
    /\ expect = NewMatrix
    /\ built = NewMatrix
    /\ hist = <<>>
    /\ packer = NoPacker
    /\ region = NoRegion
    /\ packed = NoCall
    /\ shape = NoShape
    /\ shapeCall = NoCall
    /\ ds = NewDisjointSet
    /\ held = {}
    /\ joined = {}
    /\ setCall = NoCall

\* Row nodes allocated so far.
RowNodes(m) == DOMAIN m.up \ DOMAIN m.size

AddColumn ==
    /\ phase = "build"
    /\ Cardinality(Names(dlx)) < MaxCols
    /\ \E primary \in BOOLEAN :
         dlx' = add_column(dlx, ColumnNames[Cardinality(Names(dlx)) + 1], primary)
    /\ built' = dlx'
    /\ pre' = dlx'
    /\ UNCHANGED <<phase, gen, emitted, result, last, covered, snaps, expect, hist>>
    /\ UNCHANGED <<packVars, shapeVars, setVars>>

AddRow ==
    /\ phase = "build"
    /\ dlx.row_counter < MaxRows
    /\ \E column_names \in RowChoices(dlx) :
         /\ Cardinality(RowNodes(dlx)) + Len(column_names) <= MaxNodes
         /\ dlx' = add_row(dlx, column_names, RowData(dlx.row_counter))
    /\ built' = dlx'
    /\ pre' = dlx'
    /\ UNCHANGED <<phase, gen, emitted, result, last, covered, snaps, expect, hist>>
    /\ UNCHANGED <<packVars, shapeVars, setVars>>

\* it = dlx.solve(find_all=...): the generator is created, nothing runs yet.
Solve ==
    /\ gen = NoGen
    /\ Len(hist) <= MaxAbandoned
    /\ \E find_all \in BOOLEAN : gen' = NewGen(find_all)
    /\ pre' = dlx
    /\ emitted' = <<>>
    /\ phase' = "use"
    /\ last' = "solve"
    /\ UNCHANGED <<dlx, result, covered, snaps, expect, built, hist>>
    /\ UNCHANGED <<packVars, shapeVars, setVars>>

\* next(it): the generator runs to its next yield or to its end.
PullTo(r) ==
    /\ dlx' = r.m
    /\ gen' = r.g
    /\ emitted' = IF r.value.stop THEN emitted
                  ELSE Append(emitted, [stack |-> r.g.solution_stack, value |-> r.value.list])

Pull ==
    /\ gen # NoGen
    /\ ~gen.done
    /\ PullTo(Resume(dlx, gen))
    /\ last' = "pull"
    /\ UNCHANGED <<phase, pre, result, covered, snaps, expect, built, hist>>
    /\ UNCHANGED <<packVars, shapeVars, setVars>>

\* The consumer lets go of an exhausted iterator.
Drop ==
    /\ gen # NoGen
    /\ gen.done
    /\ gen' = NoGen
    /\ last' = "idle"
    /\ UNCHANGED <<dlx, phase, pre, emitted, result, covered, snaps, expect, built, hist>>
    /\ UNCHANGED <<packVars, shapeVars, setVars>>

\* The consumer stops pulling after a solution and lets go of the iterator.
\* Closing a suspended generator raises GeneratorExit at its yield; search()
\* has no try/finally, so no statement after the yield runs.
Abandon ==
    /\ gen # NoGen
    /\ gen.started
    /\ ~gen.done
    /\ gen' = NoGen
    /\ hist' = Append(hist, [first |-> emitted[1].value, taken |-> Len(emitted)])
    /\ last' = "abandon"
    /\ UNCHANGED <<dlx, phase, pre, emitted, result, covered, snaps, expect, built>>
    /\ UNCHANGED <<packVars, shapeVars, setVars>>

\* dlx.has_solution(): one pull of a fresh solve() iterator, which is then
\* let go of (abandoned at its yield when there was a solution).  g is that
\* pull, kept for the record of what the iterator yielded.
HasSolutionTo(r, g) ==
    /\ dlx' = r.m
    /\ result' = r.value
    /\ emitted' = IF g.value.stop THEN <<>>
                  ELSE <<[stack |-> g.g.solution_stack, value |-> g.value.list]>>
    /\ hist' = IF g.g.done THEN hist
               ELSE Append(hist, [first |-> g.value.list, taken |-> 1])
    /\ last' = IF g.g.done THEN "has_solution" ELSE "has_solution_abandon"

HasSolution ==
    /\ gen = NoGen
    /\ Len(hist) <= MaxAbandoned
    /\ HasSolutionTo(has_solution(dlx), Resume(dlx, NewGen(FALSE)))
    /\ pre' = dlx
    /\ phase' = "use"
    /\ UNCHANGED <<gen, covered, snaps, expect, built>>
    /\ UNCHANGED <<packVars, shapeVars, setVars>>

Next == AddColumn \/ AddRow \/ Solve \/ Pull \/ Drop \/ Abandon \/ HasSolution

Spec == Init /\ [][Next]_vars

\* The columns in the header's right ring, in ring order.
RECURSIVE RingFrom(_, _, _)
RingFrom(m, col, fuel) ==
    IF col = Root \/ fuel = 0 THEN <<>>
    ELSE <<col>> \o RingFrom(m, m.right[col], fuel - 1)

HeaderRing(m) == RingFrom(m, m.right[Root], Cardinality(DOMAIN m.up))

InSeq(x, seq) == \E i \in DOMAIN seq : seq[i] = x

\* self._cover(col) called directly on a column of the header ring.
Cover ==
    /\ gen = NoGen
    /\ \E col \in {c \in DOMAIN dlx.size : InSeq(c, HeaderRing(dlx))} :
         /\ dlx' = cover(dlx, col)
         /\ covered' = Append(covered, col)
    /\ snaps' = Append(snaps, dlx)
    /\ expect' = dlx
    /\ phase' = "use"
    /\ last' = "cover"
    /\ UNCHANGED <<gen, pre, emitted, result, built, hist>>
    /\ UNCHANGED <<packVars, shapeVars, setVars>>

\* self._uncover(col) on the most recently covered column.
Uncover ==
    /\ gen = NoGen
    /\ covered # <<>>
    /\ dlx' = uncover(dlx, covered[Len(covered)])
    /\ covered' = Pop(covered)
    /\ snaps' = Pop(snaps)
    /\ expect' = snaps[Len(snaps)]
    /\ last' = IF last = "cover" THEN "cover_uncover" ELSE "uncover"
    /\ UNCHANGED <<phase, gen, pre, emitted, result, built, hist>>
    /\ UNCHANGED <<packVars, shapeVars, setVars>>

NextCover == AddColumn \/ AddRow \/ Cover \/ Uncover

SpecCover == Init /\ [][NextCover]_vars

\* result = self._choose_column(), called directly on the matrix as it is,
\* with any number of columns covered.  The method assigns to its locals
\* min_size, best_col and col only.
ChooseColumn ==
    /\ gen = NoGen
    /\ result' = choose_column(dlx)
    /\ expect' = dlx
    /\ phase' = "use"
    /\ last' = "choose_column"
    /\ UNCHANGED <<dlx, gen, pre, emitted, covered, snaps, built, hist>>
    /\ UNCHANGED <<packVars, shapeVars, setVars>>

\* The caller builds the matrix, covers and uncovers columns, and then asks
\* for the column to branch on.
NextChoose ==
    \/ (last # "choose_column" /\ AddColumn)
    \/ (last # "choose_column" /\ AddRow)
    \/ (last # "choose_column" /\ Cover)
    \/ (last # "choose_column" /\ Uncover)
    \/ ChooseColumn

SpecChoose == Init /\ [][NextChoose]_vars


\* ------------------------------------------------------------------ rings

\* The nodes met walking from n along the link field next until stop is met.
\* A walk that does not come back within the number of allocated objects
\* ends in None.
RECURSIVE Walk(_, _, _, _)
Walk(next, stop, n, fuel) ==
    IF n = stop THEN <<>>
    ELSE IF fuel = 0 THEN <<None>>
    ELSE <<n>> \o Walk(next, stop, next[n], fuel - 1)

Closed(walk) == ~InSeq(None, walk)

NodeCount(m) == Cardinality(DOMAIN m.up)

DownRing(m, n) == Walk(m.down, n, m.down[n], NodeCount(m))
UpRing(m, n) == Walk(m.up, n, m.up[n], NodeCount(m))
RightRing(m, n) == Walk(m.right, n, m.right[n], NodeCount(m))
LeftRing(m, n) == Walk(m.left, n, m.left[n], NodeCount(m))

Headers(m) == DOMAIN m.size \ {Root}

\* Every column's size, every vertical ring (from each header), every
\* horizontal ring (from each node) and the header ring, in both directions.
Rings(m) ==
    [ size |-> m.size,
      down |-> [c \in Headers(m) |-> DownRing(m, c)],
      up |-> [c \in Headers(m) |-> UpRing(m, c)],
      right |-> [n \in DOMAIN m.up |-> RightRing(m, n)],
      left |-> [n \in DOMAIN m.up |-> LeftRing(m, n)] ]

\* The columns a row (given by one of its nodes) has a node in.
RowColumns(m, n) == {m.column[n]} \cup {m.column[RightRing(m, n)[i]] : i \in DOMAIN RightRing(m, n)}

\* C8: _cover(col) on a column of the header ring followed immediately by
\* _uncover(col) restores every column's size, the traversal order of every
\* vertical and horizontal ring, and the header ring.
C8_CoverUncoverNoOp ==
    last = "cover_uncover" => Rings(dlx) = Rings(expect)

\* A cover/uncover pair was run on a column that holds a row with another
\* node, while another column was already covered.
C8_Witness ==
    /\ last = "cover_uncover"
    /\ Len(covered) = 1
    /\ \E c \in Headers(dlx) :
         /\ c # covered[1]
         /\ InSeq(c, HeaderRing(dlx))
         /\ dlx.size[c] >= 1
         /\ \E i \in DOMAIN DownRing(dlx, c) :
              Cardinality(RowColumns(dlx, DownRing(dlx, c)[i])) >= 2

\* C9: covering distinct uncovered columns c1..cn and uncovering them in the
\* exact reverse order restores all links, all sizes and the header ring:
\* after every _uncover the matrix equals the matrix before the matching
\* _cover, link for link.
C9_NestedRestore ==
    last \in {"uncover", "cover_uncover"} =>
        /\ dlx.up = expect.up /\ dlx.down = expect.down
        /\ dlx.left = expect.left /\ dlx.right = expect.right
        /\ dlx.size = expect.size
        /\ HeaderRing(dlx) = HeaderRing(expect)

\* In a matrix of three columns that share a three-node row, nested covers
\* have all been undone, the last uncover not right after its own cover.
C9_Witness ==
    /\ last = "uncover"
    /\ covered = <<>>
    /\ Cardinality(Headers(dlx)) = 3
    /\ \E n \in RowNodes(dlx) : Cardinality(RowColumns(dlx, n)) = 3

\* C10: in every state reached by add_column/add_row and properly nested
\* _cover/_uncover calls, walking down from a column header visits exactly
\* size nodes before it is back at the header, walking right from a row node
\* comes back to that node, the header's right ring holds exactly the columns
\* not currently covered, and no size is negative.
C10_RingInvariant ==
    /\ \A c \in Headers(dlx) :
         /\ Closed(DownRing(dlx, c))
         /\ Len(DownRing(dlx, c)) = dlx.size[c]
         /\ dlx.size[c] >= 0
    /\ \A n \in RowNodes(dlx) : Closed(RightRing(dlx, n))
    /\ Closed(RightRing(dlx, Root))
    /\ \A c \in Headers(dlx) :
         Cardinality({i \in DOMAIN HeaderRing(dlx) : HeaderRing(dlx)[i] = c})
            = IF InSeq(c, covered) THEN 0 ELSE 1

\* Two columns are covered, and a column still in the ring has lost a row.
C10_Witness ==
    /\ Len(covered) = 2
    /\ \E c \in Headers(dlx) :
         /\ InSeq(c, HeaderRing(dlx))
         /\ dlx.size[c] < built.size[c]
         /\ dlx.size[c] >= 1


\* ------------------------------------------------------------------ exact covers

RowIds(m) == DOMAIN m.rows

\* The columns row r has a node in.
RowCols(m, r) == {m.column[n] : n \in {k \in RowNodes(m) : m.row_id[k] = r}}

\* How many rows of S contain column c.
Covers(m, S, c) == Cardinality({r \in S : c \in RowCols(m, r)})

\* S covers every primary column exactly once, every secondary column at most once.
IsExactCover(m, S) ==
    \A c \in Headers(m) :
        IF m.is_primary[c] THEN Covers(m, S, c) = 1 ELSE Covers(m, S, c) <= 1

ExactCovers(m) == {S \in SUBSET RowIds(m) : IsExactCover(m, S)}

HasPrimary(m, r) == \E c \in RowCols(m, r) : m.is_primary[c]

\* The exact covers made of rows that each hold a primary column.
PrimaryExactCovers(m) == {S \in ExactCovers(m) : \A r \in S : HasPrimary(m, r)}

\* The rows whose payloads a yielded list holds.
RowsOfList(m, list) == {r \in RowIds(m) : InSeq(m.rows[r], list)}

NoDup(list) == \A i, j \in DOMAIN list : i # j => list[i] # list[j]

EmittedSets == {RowsOfList(built, emitted[i].value) : i \in DOMAIN emitted}

\* A solve() iterator (or has_solution's) that was created on the matrix as
\* add_column/add_row built it.
OnBuilt == pre = built

\* C1: on a matrix built with add_column/add_row, every solution solve()
\* yields is a list of payloads of rows that together contain every primary
\* column exactly once and every secondary column at most once.
C1_Soundness ==
    OnBuilt =>
        \A i \in DOMAIN emitted :
            /\ NoDup(emitted[i].value)
            /\ Cardinality(RowsOfList(built, emitted[i].value)) = Len(emitted[i].value)
            /\ IsExactCover(built, RowsOfList(built, emitted[i].value))

\* A two-row solution that covers a secondary column was yielded, after
\* another solution.
C1_Witness ==
    /\ OnBuilt
    /\ Len(emitted) = 2
    /\ Len(emitted[2].value) = 2
    /\ \E c \in Headers(built) :
         ~built.is_primary[c] /\ Covers(built, RowsOfList(built, emitted[2].value), c) = 1

\* C3: when the consumer takes the first solution and stops pulling, the
\* matrix is back in its pre-solve state: header ring, sizes and the order of
\* every ring are as before the call.
C3_AbandonRestores ==
    (last \in {"abandon", "has_solution_abandon"} /\ hist[Len(hist)].taken = 1) =>
        /\ HeaderRing(dlx) = HeaderRing(pre)
        /\ Rings(dlx) = Rings(pre)

\* C4: a solve() / has_solution() call made after an earlier call's iterator
\* was abandoned after its first solution yields the same first solution.
C4_Restartable ==
    (gen # NoGen /\ gen.started /\ hist # <<>> /\ hist[Len(hist)].taken = 1) =>
        /\ emitted # <<>>
        /\ emitted[1].value = hist[Len(hist)].first

\* C5: with find_all = False solve() yields at most one solution (so the pull
\* after the first solution finds the iterator exhausted).
C5_StopsAfterFirst ==
    (gen # NoGen /\ ~gen.find_all) =>
        Len(emitted) <= 1

\* C6 as stated: solve(find_all=True) consumed to exhaustion yields exactly
\* the exact covers of the matrix, each once.
C6_AllExactCovers ==
    (OnBuilt /\ gen # NoGen /\ gen.find_all /\ gen.done) =>
        /\ EmittedSets = ExactCovers(built)
        /\ Cardinality(EmittedSets) = Len(emitted)

\* C6 amended: solve(find_all=True) consumed to exhaustion yields exactly the
\* exact covers made of rows that each contain at least one primary column,
\* each once.
C6_AllPrimaryExactCovers ==
    (OnBuilt /\ gen # NoGen /\ gen.find_all /\ gen.done) =>
        /\ EmittedSets = PrimaryExactCovers(built)
        /\ Cardinality(EmittedSets) = Len(emitted)

\* An exhaustive run yielded two solutions on a matrix that also holds a row
\* without a primary column.
C6_Witness ==
    /\ OnBuilt /\ gen # NoGen /\ gen.find_all /\ gen.done
    /\ Len(emitted) = 2
    /\ \E r \in RowIds(built) : ~HasPrimary(built, r) /\ RowCols(built, r) # {}

\* C7: has_solution() returns True iff the matrix has an exact cover; True
\* when there is no primary column, False when a primary column has no row.
C7_HasSolution ==
    last \in {"has_solution", "has_solution_abandon"} =>
        /\ result = (ExactCovers(built) # {})
        /\ (\A c \in Headers(built) : ~built.is_primary[c]) => result = TRUE
        /\ (\E c \in Headers(built) : built.is_primary[c] /\ built.size[c] = 0)
              => result = FALSE

\* has_solution() returned False on a matrix in which every primary column
\* has a row: the search ran and was exhausted.
C7_Witness ==
    /\ last = "has_solution"
    /\ result = FALSE
    /\ \E c \in Headers(built) : built.is_primary[c]
    /\ \A c \in Headers(built) : built.is_primary[c] => built.size[c] >= 1


\* ------------------------------------------------------------------ polyominoes

Coord(x, y) == [x |-> x, y |-> y]

\* Coord.__add__
CoordAdd(a, b) == Coord(a.x + b.x, a.y + b.y)
\* Coord.rotate_cw
CoordRotateCw(c) == Coord(-c.y, c.x)
\* Coord.flip_horizontal turning the coordinate in place of mirroring it.
FlipAsTurn(c) == Coord(-c.y, c.x)

\* Coord.flip_horizontal
CoordFlipHorizontal(c) == Coord(-c.x, c.y)

MinOf(S) == CHOOSE v \in S : \A w \in S : v <= w
MaxOf(S) == CHOOSE v \in S : \A w \in S : v >= w

Polyomino(cells, shape_id, instance_id) ==
    [cells |-> cells, shape_id |-> shape_id, instance_id |-> instance_id]

\* Polyomino.translate
translate(p, offset) ==
    Polyomino({CoordAdd(c, offset) : c \in p.cells}, p.shape_id, p.instance_id)

\* _normalize moving the cells along x only.
NormalizeXOnly(p) ==
    IF p.cells = {} THEN p
    ELSE translate(p, Coord(-MinOf({c.x : c \in p.cells}), 0))

\* Polyomino._normalize
normalize(p) ==
    IF p.cells = {} THEN p
    ELSE translate(p, Coord(-MinOf({c.x : c \in p.cells}), -MinOf({c.y : c \in p.cells})))

\* The positions (x, y) of the characters of a text given as its list of lines.
Positions(pattern) ==
    UNION {{Coord(x, y) : x \in 0..(Len(pattern[y + 1]) - 1)} : y \in 0..(Len(pattern) - 1)}

\* Polyomino.from_pattern: pattern is the list of the text's lines, each a
\* list of characters; coord_char and instance_id take their defaults.
from_pattern(pattern, shape_id) ==
    normalize(Polyomino({c \in Positions(pattern) : pattern[c.y + 1][c.x + 1] = "#"},
                        shape_id, 0))

\* rotate_cw with the _normalize() call left out.
RotateNotNormalized(p) ==
    Polyomino({CoordRotateCw(c) : c \in p.cells}, p.shape_id, p.instance_id)

\* Polyomino.rotate_cw
rotate_cw(p) ==
    normalize(Polyomino({CoordRotateCw(c) : c \in p.cells}, p.shape_id, p.instance_id))

\* flip_horizontal building its result without instance_id=self.instance_id.
FlipForgetsInstance(p) ==
    normalize(Polyomino({CoordFlipHorizontal(c) : c \in p.cells}, p.shape_id, 0))

\* Polyomino.flip_horizontal
flip_horizontal(p) ==
    normalize(Polyomino({CoordFlipHorizontal(c) : c \in p.cells}, p.shape_id, p.instance_id))

\* The loop of all_orientations as "for _ in range(3)".
ThreeRotations(current) == {current, rotate_cw(current), rotate_cw(rotate_cw(current))}

\* The four values current takes in a "for _ in range(4)" loop of all_orientations.
FourRotations(current) ==
    {current, rotate_cw(current), rotate_cw(rotate_cw(current)),
     rotate_cw(rotate_cw(rotate_cw(current)))}

\* all_orientations giving the shape as it is only, never turned or flipped.
AsGivenOnly(p) == {p}

\* Polyomino.all_orientations
all_orientations(p) == FourRotations(p) \cup FourRotations(flip_horizontal(p))

\* Polyomino.with_instance_id
with_instance_id(p, instance_id) == Polyomino(p.cells, p.shape_id, instance_id)

\* Polyomino.width, .height, .area
width(p) == IF p.cells # {} THEN MaxOf({c.x : c \in p.cells}) + 1 ELSE 0
height(p) == IF p.cells # {} THEN MaxOf({c.y : c \in p.cells}) + 1 ELSE 0
area(p) == Cardinality(p.cells)

\* ------------------------------------------------------------------ packer

\* The order in which a Python set or frozenset is iterated is not fixed by
\* its contents; the caller of can_pack/find_packing sees one of them.  The
\* model iterates a set in a fixed order or in its reverse (order "fwd"/"rev").
RECURSIVE SetToSeq(_)
SetToSeq(S) ==
    IF S = {} THEN <<>>
    ELSE <<CHOOSE v \in S : TRUE>> \o SetToSeq(S \ {CHOOSE v \in S : TRUE})

Reverse(seq) == [i \in 1..Len(seq) |-> seq[Len(seq) + 1 - i]]

Iterate(S, order) == IF order = "fwd" THEN SetToSeq(S) ELSE Reverse(SetToSeq(S))

\* range(n) as a list.
Range(n) == [i \in 1..(IF n > 0 THEN n ELSE 0) |-> i - 1]

RECURSIVE Concat(_)
Concat(seqs) == IF seqs = <<>> THEN <<>> ELSE Head(seqs) \o Concat(Tail(seqs))

\* Region.area
RegionArea(r) == r.width * r.height

\* dict.items() of required_pieces, in the dict's order (ascending shape id,
\* as parse_input inserts them).
RECURSIVE Ascending(_)
Ascending(S) == IF S = {} THEN <<>> ELSE <<MinOf(S)>> \o Ascending(S \ {MinOf(S)})
Items(required_pieces) == Ascending(DOMAIN required_pieces)

Placement(polyomino, position) == [polyomino |-> polyomino, position |-> position]

\* PolyominoPacker.__init__
NewPacker(shapes) ==
    [kind |-> "packer", shapes |-> shapes,
     orientations |-> [shape_id \in DOMAIN shapes |-> all_orientations(shapes[shape_id])]]

\* _generate_placements with range(width - pw) in place of range(width - pw + 1).
PlacementsOfShort(oriented_piece, w, h) ==
    Concat([i \in DOMAIN Range(w - width(oriented_piece)) |->
              [j \in DOMAIN Range(h - height(oriented_piece)) |->
                  Placement(translate(oriented_piece,
                                      Coord(Range(w - width(oriented_piece))[i],
                                            Range(h - height(oriented_piece))[j])),
                            Coord(Range(w - width(oriented_piece))[i],
                                  Range(h - height(oriented_piece))[j]))]])

\* The placements of one oriented piece: for x in range(..): for y in range(..).
PlacementsOf(oriented_piece, w, h) ==
    Concat([i \in DOMAIN Range(w - width(oriented_piece) + 1) |->
              [j \in DOMAIN Range(h - height(oriented_piece) + 1) |->
                  Placement(translate(oriented_piece,
                                      Coord(Range(w - width(oriented_piece) + 1)[i],
                                            Range(h - height(oriented_piece) + 1)[j])),
                            Coord(Range(w - width(oriented_piece) + 1)[i],
                                  Range(h - height(oriented_piece) + 1)[j]))]])

OrientedPieces(pk, piece, order) ==
    [i \in DOMAIN Iterate(pk.orientations[piece.shape_id], order) |->
        with_instance_id(Iterate(pk.orientations[piece.shape_id], order)[i], piece.instance_id)]

\* PolyominoPacker._generate_placements, as the list it yields.
generate_placements(pk, piece, w, h, order) ==
    Concat([i \in DOMAIN OrientedPieces(pk, piece, order) |->
              PlacementsOf(OrientedPieces(pk, piece, order)[i], w, h)])

\* f"cell_{x}_{y}" and f"piece_{shape_id}_{instance}"
CellName(x, y) == <<"cell", x, y>>
PieceName(shape_id, instance) == <<"piece", shape_id, instance>>

\* sum(self.shapes[shape_id].area * count for shape_id, count in required_pieces.items())
RECURSIVE TotalArea(_, _, _)
TotalArea(pk, required_pieces, ids) ==
    IF ids = <<>> THEN 0
    ELSE area(pk.shapes[Head(ids)]) * required_pieces[Head(ids)]
           + TotalArea(pk, required_pieces, Tail(ids))

\* "Add cell columns": for x in range(width): for y in range(height)
CellColumnNames(r) ==
    Concat([i \in DOMAIN Range(r.width) |->
              [j \in DOMAIN Range(r.height) |-> CellName(Range(r.width)[i], Range(r.height)[j])]])

\* (In the loops below the test on row_counter, which is never negative, has
\* the matrix evaluated before the loop goes on.)
RECURSIVE AddColumns(_, _, _)
AddColumns(m, names, primary) ==
    IF names = <<>> \/ m.row_counter < 0 THEN m
    ELSE AddColumns(add_column(m, Head(names), primary), Tail(names), primary)

\* pieces_to_place with range(count - 1) in place of range(count).
PiecesOfShapeOneFewer(pk, required_pieces, shape_id) ==
    IF shape_id \notin DOMAIN pk.shapes THEN <<>>
    ELSE [i \in DOMAIN Range(required_pieces[shape_id] - 1) |->
            with_instance_id(pk.shapes[shape_id], Range(required_pieces[shape_id] - 1)[i])]

\* pieces_to_place: shape ids absent from the catalogue are skipped.
PiecesOfShape(pk, required_pieces, shape_id) ==
    IF shape_id \notin DOMAIN pk.shapes THEN <<>>
    ELSE [i \in DOMAIN Range(required_pieces[shape_id]) |->
            with_instance_id(pk.shapes[shape_id], Range(required_pieces[shape_id])[i])]

PiecesToPlace(pk, r) ==
    Concat([i \in DOMAIN Items(r.required_pieces) |->
              PiecesOfShape(pk, r.required_pieces, Items(r.required_pieces)[i])])

PieceColumnNames(pieces) ==
    [i \in DOMAIN pieces |-> PieceName(pieces[i].shape_id, pieces[i].instance_id)]

\* The row of a placement with its cell columns left out.
RowColumnNamesNoCells(piece, placement, order) ==
    <<PieceName(piece.shape_id, piece.instance_id)>>

\* columns = [piece name] + [cell name for c in placement.occupied_cells]
RowColumnNames(piece, placement, order) ==
    <<PieceName(piece.shape_id, piece.instance_id)>>
      \o [i \in DOMAIN Iterate(placement.polyomino.cells, order) |->
            CellName(Iterate(placement.polyomino.cells, order)[i].x,
                     Iterate(placement.polyomino.cells, order)[i].y)]

RECURSIVE AddPlacementRows(_, _, _, _)
AddPlacementRows(m, piece, placements, order) ==
    IF placements = <<>> \/ m.row_counter < 0 THEN m
    ELSE AddPlacementRows(add_row(m, RowColumnNames(piece, Head(placements), order),
                                  Head(placements)),
                          piece, Tail(placements), order)

RECURSIVE AddPieceRows(_, _, _, _, _)
AddPieceRows(m, pk, pieces, r, order) ==
    IF pieces = <<>> \/ m.row_counter < 0 THEN m
    ELSE AddPieceRows(AddPlacementRows(m, Head(pieces),
                                       generate_placements(pk, Head(pieces), r.width, r.height,
                                                           order),
                                       order),
                      pk, Tail(pieces), r, order)

\* "Build DLX matrix"
PackMatrix(pk, r, order) ==
    AddPieceRows(AddColumns(AddColumns(NewMatrix, CellColumnNames(r), FALSE),
                            PieceColumnNames(PiecesToPlace(pk, r)), TRUE),
                 pk, PiecesToPlace(pk, r), r, order)

\* How a call of the packer ends: it returns value or raises. dlx is the
\* DancingLinks the call created (NoDlx when it ended before creating one) and
\* generated the number of placements _generate_placements yielded to it, one
\* per add_row.
NoDlx == [kind |-> "none"]
Returned(v, m) ==
    [kind |-> "return", raised |-> "", value |-> v, dlx |-> m,
     generated |-> IF m = NoDlx THEN 0 ELSE m.row_counter]
Raised(e) == [kind |-> "raise", raised |-> e, value |-> FALSE, dlx |-> NoDlx, generated |-> 0]

\* The area test with >= in place of >.
AreaFull(pk, r) ==
    TotalArea(pk, r.required_pieces, Items(r.required_pieces)) >= RegionArea(r)

\* if total_piece_area > region.area
AreaTooLarge(pk, r) ==
    TotalArea(pk, r.required_pieces, Items(r.required_pieces)) > RegionArea(r)

\* self.shapes[shape_id] in the area sum raises KeyError for a required shape
\* id that the catalogue lacks, whatever its count.
SumRaises(pk, r) == \E shape_id \in DOMAIN r.required_pieces : shape_id \notin DOMAIN pk.shapes

\* return dlx.has_solution()
CanPackOn(m) == Returned(has_solution(m).value, m)

\* can_pack raising ValueError where it returns False on too large an area.
can_pack_raising(pk, r, order) ==
    IF SumRaises(pk, r) THEN Raised("KeyError")
    ELSE IF AreaTooLarge(pk, r) THEN Raised("ValueError")
    ELSE CanPackOn(PackMatrix(pk, r, order))

\* PolyominoPacker.can_pack
can_pack(pk, r, order) ==
    IF SumRaises(pk, r) THEN Raised("KeyError")
    ELSE IF AreaTooLarge(pk, r) THEN Returned(FALSE, NoDlx)
    ELSE CanPackOn(PackMatrix(pk, r, order))

\* find_packing returning None for an empty first solution
\* (next(dlx.solve(), None) or None).
FindPackingOnTruthy(m) ==
    Returned(IF Resume(m, NewGen(FALSE)).value.list = <<>> THEN Stopped
             ELSE Resume(m, NewGen(FALSE)).value, m)

\* return next(dlx.solve(), None): the first solution's list of placements,
\* or None (Stopped).
FindPackingOn(m) == Returned(Resume(m, NewGen(FALSE)).value, m)

\* PolyominoPacker.find_packing; its lines 189-220 repeat can_pack's 147-183.
find_packing(pk, r, order) ==
    IF SumRaises(pk, r) THEN Raised("KeyError")
    ELSE IF AreaTooLarge(pk, r) THEN Returned(Stopped, NoDlx)
    ELSE FindPackingOn(PackMatrix(pk, r, order))

\* ------------------------------------------------------------------ packer calls

\* The pattern texts of the shape catalogue: PatH lines of PatW characters,
\* at least one of them the marker.
Patterns ==
    {pt \in [1..PatH -> [1..PatW -> {"#", "."}]] :
        \E y \in 1..PatH, x \in 1..PatW : pt[y][x] = "#"}

\* packer = PolyominoPacker(shapes), the shapes parsed from pattern texts
\* under the ids 0, 1, ... as parse_input does.
MakePacker ==
    /\ packer = NoPacker
    /\ \E k \in 1..MaxShapes :
         \E pats \in [0..(k - 1) -> Patterns] :
            packer' = NewPacker([shape_id \in 0..(k - 1) |->
                                    from_pattern(pats[shape_id], shape_id)])
    /\ UNCHANGED <<region, packed>>
    /\ UNCHANGED <<dlxVars, shapeVars, setVars>>

\* The regions a caller passes: counts for the shape ids 0 .. j-1.
Regions ==
    UNION {[width : 1..MaxW, height : 1..MaxH,
            required_pieces : [0..(j - 1) -> 0..MaxCount]] : j \in 0..MaxShapes}

\* packer.can_pack(region).  The call builds a matrix of its own and leaves
\* the packer as it was, so one call per packer is followed.
CanPack ==
    /\ packer # NoPacker
    /\ packed = NoCall
    /\ \E r \in Regions, order \in {"fwd", "rev"} :
         /\ region' = r
         /\ packed' = [call |-> "can_pack", out |-> can_pack(packer, r, order)]
    /\ UNCHANGED packer
    /\ UNCHANGED <<dlxVars, shapeVars, setVars>>

\* packer.find_packing(region)
FindPacking ==
    /\ packer # NoPacker
    /\ packed = NoCall
    /\ \E r \in Regions, order \in {"fwd", "rev"} :
         /\ region' = r
         /\ packed' = [call |-> "find_packing", out |-> find_packing(packer, r, order)]
    /\ UNCHANGED packer
    /\ UNCHANGED <<dlxVars, shapeVars, setVars>>

NextPack == MakePacker \/ CanPack \/ FindPacking

SpecPack == Init /\ [][NextPack]_vars


\* ------------------------------------------------------------------ packings

\* The eight rotations and reflections of the plane that keep the grid, as
\* the maps (x, y) -> (a x + b y, c x + d y).
Symmetries ==
    { <<1, 0, 0, 1>>, <<0, -1, 1, 0>>, <<-1, 0, 0, -1>>, <<0, 1, -1, 0>>,
      <<-1, 0, 0, 1>>, <<0, 1, 1, 0>>, <<1, 0, 0, -1>>, <<0, -1, -1, 0>> }

Moved(cells, t, dx, dy) ==
    {Coord(t[1] * c.x + t[2] * c.y + dx, t[3] * c.x + t[4] * c.y + dy) : c \in cells}

Grid(w, h) == {Coord(x, y) : x \in 0..(w - 1), y \in 0..(h - 1)}

\* How far a cell of the shape is from the origin.
Span(cells) == MaxOf({0} \cup {c.x : c \in cells} \cup {c.y : c \in cells})

\* Every set of grid cells a rotated/reflected copy of the shape can occupy
\* at an integer position, entirely inside the w x h rectangle.
Fits(cells, w, h) ==
    { img \in { Moved(cells, t, d[1], d[2]) :
                  t \in Symmetries,
                  d \in ((-Span(cells))..(Span(cells) + w)) \X ((-Span(cells))..(Span(cells) + h)) } :
        img \subseteq Grid(w, h) }

\* The pieces can be put down one after the other on cells not yet occupied.
RECURSIVE PlaceAll(_, _, _, _)
PlaceAll(shapeCells, occupied, w, h) ==
    \/ shapeCells = <<>>
    \/ \E img \in Fits(Head(shapeCells), w, h) :
         /\ img \cap occupied = {}
         /\ PlaceAll(Tail(shapeCells), occupied \cup img, w, h)

\* One cell set per required piece instance.
RequiredCells(shapes, r) ==
    Concat([i \in DOMAIN Items(r.required_pieces) |->
              [n \in 1..r.required_pieces[Items(r.required_pieces)[i]] |->
                  shapes[Items(r.required_pieces)[i]].cells]])

Packable(shapes, r) == PlaceAll(RequiredCells(shapes, r), {}, r.width, r.height)

AllCatalogued(pk, r) == DOMAIN r.required_pieces \subseteq DOMAIN pk.shapes

\* C2: for a region whose required shape ids are all in the catalogue,
\* can_pack returns True iff every required piece instance can be placed, each
\* in one of its rotations/reflections at an integer position, inside the
\* width x height rectangle with no cell occupied by two pieces.
C2_CanPackIffPackable ==
    (packed # NoCall /\ packed.call = "can_pack" /\ AllCatalogued(packer, region)) =>
        /\ packed.out.kind = "return"
        /\ packed.out.value = Packable(packer.shapes, region)

\* can_pack returned False although the pieces' total area fits the region
\* and every single piece fits in it: the search was exhausted.
C2_Witness ==
    /\ packed # NoCall /\ packed.call = "can_pack" /\ AllCatalogued(packer, region)
    /\ packed.out.kind = "return" /\ packed.out.value = FALSE
    /\ Len(RequiredCells(packer.shapes, region)) >= 2
    /\ TotalArea(packer, region.required_pieces, Items(region.required_pieces))
          <= RegionArea(region)
    /\ \A i \in DOMAIN RequiredCells(packer.shapes, region) :
          Fits(RequiredCells(packer.shapes, region)[i], region.width, region.height) # {}

\* ------------------------------------------------------------------ find_packing

\* The region's requirements for the shapes of the catalogue: a shape id the
\* catalogue lacks is skipped (treated as satisfied).
Known(pk, r) ==
    [r EXCEPT !.required_pieces =
        [shape_id \in DOMAIN r.required_pieces \cap DOMAIN pk.shapes |->
            r.required_pieces[shape_id]]]

\* The required piece instances, as (shape id, instance) pairs.
Instances(r) ==
    {<<shape_id, n>> : shape_id \in DOMAIN r.required_pieces, n \in 0..(MaxCount - 1)}
      \cap {<<shape_id, n>> \in (DOMAIN r.required_pieces) \X (0..(MaxCount - 1)) :
               n < r.required_pieces[shape_id]}

\* The rotated/reflected copies of a shape, each moved to touch both axes.
OrientationsOf(cells) ==
    { img \in { Moved(cells, t, d[1], d[2]) :
                  t \in Symmetries,
                  d \in ((-Span(cells))..Span(cells)) \X ((-Span(cells))..Span(cells)) } :
        img = {} \/ (MinOf({c.x : c \in img}) = 0 /\ MinOf({c.y : c \in img}) = 0) }

\* list holds exactly one placement per required piece instance, each inside
\* the region and an orientation of its shape moved by its position, and no
\* two placements share a cell.
ValidPacking(pk, r, list) ==
    /\ Len(list) = Cardinality(Instances(r))
    /\ {<<list[i].polyomino.shape_id, list[i].polyomino.instance_id>> : i \in DOMAIN list}
          = Instances(r)
    /\ \A i \in DOMAIN list :
         /\ list[i].polyomino.cells \subseteq Grid(r.width, r.height)
         /\ \E o \in OrientationsOf(pk.shapes[list[i].polyomino.shape_id].cells) :
              list[i].polyomino.cells
                 = Moved(o, <<1, 0, 0, 1>>, list[i].position.x, list[i].position.y)
    /\ \A i, j \in DOMAIN list :
         i # j => list[i].polyomino.cells \cap list[j].polyomino.cells = {}

\* What the claim asks of a find_packing call that returned.
FindPackingCorrect ==
    /\ (packed.out.value = Stopped) = ~Packable(packer.shapes, Known(packer, region))
    /\ packed.out.value # Stopped =>
          ValidPacking(packer, Known(packer, region), packed.out.value.list)

\* C11: for a region whose shape ids are in the catalogue, find_packing
\* returns None iff no packing exists, and otherwise a list with exactly one
\* placement per required piece instance, every placement inside the region
\* and an orientation of its shape translated by its position, no two
\* placements sharing a cell.
C11_FindPacking ==
    (packed # NoCall /\ packed.call = "find_packing" /\ AllCatalogued(packer, region)) =>
        /\ packed.out.kind = "return"
        /\ FindPackingCorrect

\* find_packing returned a packing of two pieces.
C11_Witness ==
    /\ packed # NoCall /\ packed.call = "find_packing" /\ AllCatalogued(packer, region)
    /\ packed.out.kind = "return" /\ packed.out.value # Stopped
    /\ Len(packed.out.value.list) = 2

\* ------------------------------------------------------------------ area pruning

RECURSIVE SumCells(_)
SumCells(cellSets) ==
    IF cellSets = <<>> THEN 0 ELSE Cardinality(Head(cellSets)) + SumCells(Tail(cellSets))

\* The sum over the required shapes of cell count x required count.
RequiredArea(pk, r) == SumCells(RequiredCells(pk.shapes, r))

\* C12: when the required pieces' total cell count exceeds width x height,
\* can_pack returns False and find_packing None before any column or row is
\* created and before any placement is generated; when it does not exceed
\* it, the call is not cut short by the pruning and goes on to build its
\* matrix.
C12_AreaPruning ==
    (packed # NoCall /\ AllCatalogued(packer, region)) =>
        /\ RequiredArea(packer, region) > region.width * region.height =>
              /\ packed.out.kind = "return"
              /\ IF packed.call = "can_pack" THEN packed.out.value = FALSE
                 ELSE packed.out.value = Stopped
              /\ packed.out.dlx = NoDlx
              /\ packed.out.generated = 0
        /\ RequiredArea(packer, region) <= region.width * region.height =>
              /\ packed.out.dlx # NoDlx
              /\ Cardinality(DOMAIN packed.out.dlx.columns)
                    >= region.width * region.height

\* A call was cut short by the pruning although each required piece alone
\* fits the region.
C12_Witness ==
    /\ packed # NoCall /\ AllCatalogued(packer, region)
    /\ RequiredArea(packer, region) > region.width * region.height
    /\ packed.out.dlx = NoDlx
    /\ RequiredCells(packer.shapes, region) # <<>>
    /\ \A i \in DOMAIN RequiredCells(packer.shapes, region) :
          Fits(RequiredCells(packer.shapes, region)[i], region.width, region.height) # {}

\* ------------------------------------------------------------------ unknown shape ids

\* The region requires a positive count of a shape id the catalogue lacks.
RequiresAbsent(pk, r) ==
    \E shape_id \in DOMAIN r.required_pieces :
        shape_id \notin DOMAIN pk.shapes /\ r.required_pieces[shape_id] > 0

\* No column of the call's matrix belongs to a shape id the catalogue lacks.
NoColumnForAbsent(pk, r, m) ==
    m # NoDlx =>
        \A shape_id \in DOMAIN r.required_pieces \ DOMAIN pk.shapes :
            \A n \in 0..MaxCount : PieceName(shape_id, n) \notin DOMAIN m.columns

\* C13: a region that requires a positive count of a shape id absent from the
\* catalogue is handled by skipping that shape: can_pack and find_packing
\* raise no error, add no column or row for it, and decide packability from
\* the remaining required shapes.
C13_UnknownShapeSkipped ==
    (packed # NoCall /\ RequiresAbsent(packer, region)) =>
        /\ packed.out.kind = "return"
        /\ NoColumnForAbsent(packer, region, packed.out.dlx)
        /\ IF packed.call = "can_pack"
           THEN packed.out.value = Packable(packer.shapes, Known(packer, region))
           ELSE FindPackingCorrect

\* ------------------------------------------------------------------ infeasible regions

\* C14: for a region whose shape ids are all in the catalogue the call never
\* raises, and when the pieces cannot be packed (too large an area, a piece
\* that fits nowhere, or an exhausted search) can_pack returns False and
\* find_packing returns None.
C14_InfeasibleIsNormal ==
    (packed # NoCall /\ AllCatalogued(packer, region)) =>
        /\ packed.out.kind = "return"
        /\ ~Packable(packer.shapes, region) =>
              IF packed.call = "can_pack" THEN packed.out.value = FALSE
              ELSE packed.out.value = Stopped

\* can_pack returned False for a region whose area suffices but in which one
\* required piece fits in no orientation at any anchor.
C14_Witness ==
    /\ packed # NoCall /\ packed.call = "can_pack" /\ AllCatalogued(packer, region)
    /\ packed.out.kind = "return" /\ packed.out.value = FALSE
    /\ RequiredArea(packer, region) <= region.width * region.height
    /\ \E i \in DOMAIN RequiredCells(packer.shapes, region) :
          Fits(RequiredCells(packer.shapes, region)[i], region.width, region.height) = {}

\* ------------------------------------------------------------------ uncover out of order

\* self._uncover(col) on a column that is not the most recently covered one:
\* covered earlier than another column that is still covered, or not covered
\* at all.  _uncover has no check of its own and returns normally; the call
\* ends the run.
UncoverOutOfOrder ==
    /\ gen = NoGen
    /\ last # "uncover_out_of_order"
    /\ \E col \in DOMAIN dlx.size \ {Root} :
         /\ IF covered = <<>> THEN TRUE ELSE col # covered[Len(covered)]
         /\ dlx' = uncover(dlx, col)
    /\ expect' = dlx
    /\ phase' = "use"
    /\ last' = "uncover_out_of_order"
    /\ UNCHANGED <<gen, pre, emitted, result, built, hist, covered, snaps>>
    /\ UNCHANGED <<packVars, shapeVars, setVars>>

\* Callers that build a matrix, cover columns and then misuse _uncover.
NextMisuse ==
    \/ (last # "uncover_out_of_order" /\ AddColumn)
    \/ (last # "uncover_out_of_order" /\ AddRow)
    \/ (last # "uncover_out_of_order" /\ Cover)
    \/ UncoverOutOfOrder

SpecMisuse == Init /\ [][NextMisuse]_vars

\* Every column's down walk is closed and visits exactly size nodes, every
\* row's right walk is closed, and no size is negative.
SizesMatchRings(m) ==
    /\ \A c \in Headers(m) :
         /\ Closed(DownRing(m, c))
         /\ Len(DownRing(m, c)) = m.size[c]
         /\ m.size[c] >= 0
    /\ \A n \in RowNodes(m) : Closed(RightRing(m, n))
    /\ Closed(RightRing(m, Root))

\* C15: _uncover called out of stack order fails fast and leaves links and
\* sizes as they were; it never silently leaves a matrix that violates the
\* ring/size invariant.
C15_UncoverOutOfOrder ==
    last = "uncover_out_of_order" =>
        /\ SizesMatchRings(dlx)
        /\ dlx = expect

\* ------------------------------------------------------------------ shape calls

\* The pattern texts a caller passes to from_pattern: ShapeH lines of ShapeW
\* characters, with or without a marker.
ShapePatterns == [1..ShapeH -> [1..ShapeW -> {"#", "."}]]

\* How many calls of op in a row the call being made completes, and the shape
\* the first of them was made on.  A caller turns or flips a shape up to
\* MaxRun times in a row, and makes up to MaxRepeat calls in a row of any
\* other method.
Run(op) == IF shapeCall # NoCall /\ shapeCall.call = op THEN shapeCall.run + 1 ELSE 1
Origin(op) == IF shapeCall # NoCall /\ shapeCall.call = op THEN shapeCall.origin ELSE shape

\* How a Polyomino call ends. None of the methods has a raise statement, and
\* _normalize guards its min() calls against an empty cell set.
ShapeReturned(op, arg, before, v) ==
    [call |-> op, arg |-> arg, before |-> before, kind |-> "return", value |-> v,
     run |-> Run(op), origin |-> Origin(op)]

\* shape = Polyomino.from_pattern(pattern, shape_id)
FromPattern ==
    /\ shape = NoShape
    /\ \E pattern \in ShapePatterns, shape_id \in 0..1 :
         /\ shape' = from_pattern(pattern, shape_id)
         /\ shapeCall' = ShapeReturned("from_pattern", pattern, NoShape,
                                       from_pattern(pattern, shape_id))
    /\ UNCHANGED <<dlxVars, packVars, setVars>>

\* shape = shape.rotate_cw()
RotateCw ==
    /\ shape # NoShape
    /\ Run("rotate_cw") <= MaxRun
    /\ shape' = rotate_cw(shape)
    /\ shapeCall' = ShapeReturned("rotate_cw", <<>>, shape, rotate_cw(shape))
    /\ UNCHANGED <<dlxVars, packVars, setVars>>

\* shape = shape.flip_horizontal()
FlipHorizontal ==
    /\ shape # NoShape
    /\ Run("flip_horizontal") <= MaxRun
    /\ shape' = flip_horizontal(shape)
    /\ shapeCall' = ShapeReturned("flip_horizontal", <<>>, shape,
                                  flip_horizontal(shape))
    /\ UNCHANGED <<dlxVars, packVars, setVars>>

\* The offsets a caller passes to translate: up to MaxShift either way, and
\* none that moves a cell further than MaxShift below the origin.
Offsets(p) ==
    {offset \in {Coord(dx, dy) : dx, dy \in (-MaxShift)..MaxShift} :
        \A c \in p.cells : /\ c.x + offset.x \in (-MaxShift)..(ShapeW + MaxShift)
                            /\ c.y + offset.y \in (-MaxShift)..(ShapeW + MaxShift)}

\* shape = shape.translate(offset)
Translate ==
    /\ shape # NoShape
    /\ Run("translate") <= MaxRepeat
    /\ \E offset \in Offsets(shape) :
         /\ shape' = translate(shape, offset)
         /\ shapeCall' = ShapeReturned("translate", offset, shape,
                                       translate(shape, offset))
    /\ UNCHANGED <<dlxVars, packVars, setVars>>

\* shape = shape.with_instance_id(instance_id)
WithInstanceId ==
    /\ shape # NoShape
    /\ Run("with_instance_id") <= MaxRepeat
    /\ \E instance_id \in 0..1 :
         /\ shape' = with_instance_id(shape, instance_id)
         /\ shapeCall' = ShapeReturned("with_instance_id", instance_id, shape,
                                       with_instance_id(shape, instance_id))
    /\ UNCHANGED <<dlxVars, packVars, setVars>>

\* for shape in shape.all_orientations(): the caller carries on with any
\* member of the returned set.
AllOrientations ==
    /\ shape # NoShape
    /\ Run("all_orientations") <= MaxRepeat
    /\ \E orientation \in all_orientations(shape) :
         /\ shape' = orientation
         /\ shapeCall' = ShapeReturned("all_orientations", <<>>, shape,
                                       all_orientations(shape))
    /\ UNCHANGED <<dlxVars, packVars, setVars>>

NextShape ==
    \/ FromPattern \/ RotateCw \/ FlipHorizontal
    \/ Translate \/ WithInstanceId \/ AllOrientations

SpecShape == Init /\ [][NextShape]_vars

\* The pattern holds no marker character.
NoMarker(pattern) == \A y \in DOMAIN pattern : \A x \in DOMAIN pattern[y] : pattern[y][x] # "#"

\* C16: from_pattern fails, reporting an error to the caller, when the pattern
\* holds no marker character; it does not return a polyomino with an empty
\* cell set.
C16_EmptyPatternRejected ==
    (shapeCall # NoCall /\ shapeCall.call = "from_pattern" /\ NoMarker(shapeCall.arg)) =>
        /\ shapeCall.kind = "raise"
        /\ shape = NoShape

\* ------------------------------------------------------------------ no required pieces

\* Every required count of the region is zero.
AllZero(r) == \A shape_id \in DOMAIN r.required_pieces : r.required_pieces[shape_id] = 0

\* C17: for a region whose required counts are all zero, can_pack returns
\* True and find_packing returns an empty placement list, not None, for every
\* positive width and height.
C17_NoPieces ==
    (packed # NoCall /\ AllCatalogued(packer, region) /\ AllZero(region)) =>
        /\ packed.out.kind = "return"
        /\ IF packed.call = "can_pack" THEN packed.out.value = TRUE
           ELSE packed.out.value = Yielded(<<>>)

\* find_packing was called for the widest and highest region with a zero
\* count for every shape of a two-shape catalogue.
C17_Witness ==
    /\ packed # NoCall /\ packed.call = "find_packing"
    /\ AllCatalogued(packer, region) /\ AllZero(region)
    /\ DOMAIN region.required_pieces = DOMAIN packer.shapes
    /\ Cardinality(DOMAIN packer.shapes) = MaxShapes
    /\ region.width = MaxW /\ region.height = MaxH
    /\ packed.out.dlx # NoDlx

\* ------------------------------------------------------------------ worked example

ExW == 4
ExH == 4

\* The six shapes of the worked example in the module docstring, as
\* parse_input hands them to from_pattern.
ExamplePatterns ==
    << << <<"#", "#", "#">>, <<"#", "#", ".">>, <<"#", "#", ".">> >>,
       << <<"#", "#", "#">>, <<"#", "#", ".">>, <<".", "#", "#">> >>,
       << <<".", "#", "#">>, <<"#", "#", "#">>, <<"#", "#", ".">> >>,
       << <<"#", "#", ".">>, <<"#", "#", "#">>, <<"#", "#", ".">> >>,
       << <<"#", "#", "#">>, <<"#", ".", ".">>, <<"#", "#", "#">> >>,
       << <<"#", "#", "#">>, <<".", "#", ".">>, <<"#", "#", "#">> >> >>

\* shapes[shape_id] = Polyomino.from_pattern(pattern, shape_id) for the six.
ExampleShapes ==
    [shape_id \in 0..(Len(ExamplePatterns) - 1) |->
        from_pattern(ExamplePatterns[shape_id + 1], shape_id)]

\* packer = PolyominoPacker(shapes) on the shapes of the worked example.
MakeExamplePacker ==
    /\ packer = NoPacker
    /\ packer' = NewPacker(ExampleShapes)
    /\ UNCHANGED <<region, packed>>
    /\ UNCHANGED <<dlxVars, shapeVars, setVars>>

\* required_pieces as parse_input builds it from a line of counts: the
\* entries with a positive count.  Here: lines that ask for no piece, for one
\* piece, or for the two pieces of the example's first line.
ExampleRequired ==
    {<<>>} \cup {(shape_id :> 1) : shape_id \in DOMAIN ExampleShapes} \cup {(4 :> 2)}

ExampleRegions ==
    [width : 1..ExW, height : 1..ExH, required_pieces : ExampleRequired]

\* packer.can_pack(region) for a region line of the example's kind.
CanPackExample ==
    /\ packer # NoPacker
    /\ packed = NoCall
    /\ \E r \in ExampleRegions, order \in {"fwd", "rev"} :
         /\ region' = r
         /\ packed' = [call |-> "can_pack", out |-> can_pack(packer, r, order)]
    /\ UNCHANGED packer
    /\ UNCHANGED <<dlxVars, shapeVars, setVars>>

NextExample == MakeExamplePacker \/ CanPackExample

SpecExample == Init /\ [][NextExample]_vars

\* The first region line of the example, "4x4: 0 0 0 0 2 0".
FirstRegion == [width |-> 4, height |-> 4, required_pieces |-> (4 :> 2)]

\* C18: for the 4x4 region that requires two copies of the shape
\* ### / #.. / ###, can_pack returns True.
C18_FirstRegionPacks ==
    (packed # NoCall /\ packed.call = "can_pack"
       /\ packer.shapes = ExampleShapes /\ region = FirstRegion) =>
        /\ packed.out.kind = "return"
        /\ packed.out.value = TRUE

\* can_pack was called for that region and searched a matrix it had built.
C18_Witness ==
    /\ packed # NoCall /\ packed.call = "can_pack"
    /\ packer.shapes = ExampleShapes /\ region = FirstRegion
    /\ packed.out.dlx # NoDlx
    /\ Cardinality(packer.shapes[4].cells) = 7

\* ------------------------------------------------------------------ round trips

\* p is q moved so that its smallest x and its smallest y are 0, with q's
\* shape_id and instance_id; an empty q is left as it is.
AtOrigin(cells) ==
    IF cells = {} THEN {}
    ELSE {Coord(c.x - MinOf({d.x : d \in cells}), c.y - MinOf({d.y : d \in cells})) :
            c \in cells}

IsNormalizedCopy(p, q) ==
    /\ p.shape_id = q.shape_id
    /\ p.instance_id = q.instance_id
    /\ p.cells = AtOrigin(q.cells)

\* The last calls were k calls of op in a row.
RunOf(op, k) == shapeCall # NoCall /\ shapeCall.call = op /\ shapeCall.run = k

\* C21: for any polyomino, normalized or not, four rotate_cw calls in a row
\* give the original moved to the origin: the same cells after normalization,
\* the same shape_id and the same instance_id.
C21_RotateFourTimes ==
    RunOf("rotate_cw", 4) => IsNormalizedCopy(shape, shapeCall.origin)

\* Four turns of a shape that is not normalized, has no rotational symmetry
\* and carries a non-default instance_id.
C21_Witness ==
    /\ RunOf("rotate_cw", 4)
    /\ shapeCall.origin.cells # shape.cells
    /\ shapeCall.before.cells # shape.cells
    /\ rotate_cw(rotate_cw(shape)) # shape
    /\ shape.instance_id = 1

\* C22: for any polyomino, normalized or not, two flip_horizontal calls in a
\* row give the original moved to the origin: the same cells after
\* normalization, the same shape_id and the same instance_id.
C22_FlipTwice ==
    RunOf("flip_horizontal", 2) => IsNormalizedCopy(shape, shapeCall.origin)

\* Two flips of a shape that is not normalized, is not its own mirror image
\* and carries a non-default instance_id.
C22_Witness ==
    /\ RunOf("flip_horizontal", 2)
    /\ shapeCall.origin.cells # shape.cells
    /\ shapeCall.before.cells # shape.cells
    /\ shape.instance_id = 1

\* ------------------------------------------------------------------ orientations

\* The seven rotations and reflections other than the identity: the turns by
\* 90, 180 and 270 degrees, and the mirror image followed by a turn by 0, 90,
\* 180 and 270 degrees.
TurnsAndFlips == Symmetries \ {<<1, 0, 0, 1>>}

\* The shape itself, and each of its seven other images moved to the origin,
\* all with the shape's shape_id and instance_id.
EightImages(q) ==
    {q} \cup {Polyomino(AtOrigin(Moved(q.cells, t, 0, 0)), q.shape_id, q.instance_id) :
                t \in TurnsAndFlips}

\* C23: all_orientations() returns between 1 and 8 distinct shapes, and the
\* set it returns is exactly the set of the 4 successive rotations of the
\* shape (the shape itself first) and the 4 successive rotations of its
\* horizontal flip.
C23_AllOrientations ==
    (shapeCall # NoCall /\ shapeCall.call = "all_orientations") =>
        /\ Cardinality(shapeCall.value) \in 1..8
        /\ shapeCall.value = EightImages(shapeCall.before)
        /\ shape \in shapeCall.value

\* all_orientations() of a shape with eight distinct orientations, called on
\* a copy that is not normalized.
C23_Witness ==
    /\ shapeCall # NoCall
    /\ shapeCall.call = "all_orientations"
    /\ Cardinality(shapeCall.value) = 8
    /\ shapeCall.before.cells # AtOrigin(shapeCall.before.cells)

\* ------------------------------------------------------------------ normalization

MinX(p) == MinOf({c.x : c \in p.cells})
MinY(p) == MinOf({c.y : c \in p.cells})

\* The smallest x and the smallest y over the cells are 0.
Normalized(p) == p.cells = {} \/ (MinX(p) = 0 /\ MinY(p) = 0)

\* The extent of the bounding box of a non-empty polyomino.
BoxWidth(p) == MaxOf({c.x : c \in p.cells}) - MinX(p) + 1
BoxHeight(p) == MaxOf({c.y : c \in p.cells}) - MinY(p) + 1

\* width and height give the extent of the bounding box.
SizeIsBox(p) == p.cells # {} => (width(p) = BoxWidth(p) /\ height(p) = BoxHeight(p))

\* Every polyomino the last call returned: the members of the set for
\* all_orientations, the returned shape for any other method.
Results ==
    IF shapeCall = NoCall THEN {}
    ELSE IF shapeCall.call = "all_orientations" THEN shapeCall.value
    ELSE {shapeCall.value}

PrimaryInRing(m) == {c \in DOMAIN m.size : InSeq(c, HeaderRing(m)) /\ m.is_primary[c]}
RingIndex(m, c) == CHOOSE i \in DOMAIN HeaderRing(m) : HeaderRing(m)[i] = c

\* C25: _choose_column returns None exactly when the header ring holds no
\* primary column; otherwise it returns a primary column of the ring whose
\* size is the smallest, the first such column walking right from the header;
\* it never returns a secondary column or the root, and the matrix is as it
\* was.
C25_ChooseColumn ==
    last = "choose_column" =>
        /\ (result = None) <=> (PrimaryInRing(dlx) = {})
        /\ result # Root
        /\ result # None =>
              /\ result \in PrimaryInRing(dlx)
              /\ \A c \in PrimaryInRing(dlx) :
                    /\ dlx.size[result] <= dlx.size[c]
                    /\ (dlx.size[c] = dlx.size[result]) =>
                          RingIndex(dlx, result) <= RingIndex(dlx, c)
        /\ dlx = expect

\* The choice is made among two primary columns of the same smallest size
\* while a third column is covered.
C25_Witness ==
    /\ last = "choose_column"
    /\ covered # <<>>
    /\ result # None
    /\ dlx.size[result] > 0
    /\ \E c \in PrimaryInRing(dlx) : c # result /\ dlx.size[c] = dlx.size[result]

\* ------------------------------------------------------------------ nesting of cover and uncover

\* The i-th recorded event of a run, or an end marker past the last one.
LogAt(log, i) == IF i \in DOMAIN log THEN log[i] ELSE <<"end", None>>

\* The events from the i-th on are calls of kind on the columns cols, in order.
Matches(log, i, kind, cols) ==
    \A j \in DOMAIN cols : LogAt(log, i + j - 1) = <<kind, cols[j]>>

\* The columns still covered after a list of events, most recent last, or
\* <<None>> when an uncover was not for the most recently covered column.
RECURSIVE CoveredAfter(_, _, _)
CoveredAfter(log, i, stack) ==
    IF i > Len(log) \/ stack = <<None>> THEN stack
    ELSE IF log[i][1] = "cover" THEN CoveredAfter(log, i + 1, Append(stack, log[i][2]))
    ELSE IF log[i][1] = "uncover"
    THEN IF stack # <<>> /\ stack[Len(stack)] = log[i][2]
         THEN CoveredAfter(log, i + 1, Pop(stack))
         ELSE <<None>>
    ELSE CoveredAfter(log, i + 1, stack)

\* The node of row r in column c of the matrix as built, and the columns of
\* the row's other nodes walking right from it.
NodeIn(c, r) == CHOOSE n \in RowNodes(built) : built.column[n] = c /\ built.row_id[n] = r
OtherColumns(c, r) ==
    [j \in DOMAIN RightRing(built, NodeIn(c, r)) |->
        built.column[RightRing(built, NodeIn(c, r))[j]]]

\* The rows of column c, top to bottom, that are still linked in it when the
\* columns of cov are covered: those with no node in a column of cov.
RowsLeft(c, cov) ==
    SelectSeq([j \in DOMAIN DownRing(built, c) |-> built.row_id[DownRing(built, c)[j]]],
              LAMBDA r : RowCols(built, r) \cap cov = {})

SeqToSet(seq) == {seq[j] : j \in DOMAIN seq}

\* The events of one search() from the i-th on, with the columns of cov
\* covered: nothing (a yield or a dead end), or cover(c) of a primary column
\* that is not covered, then for each row left in c, top to bottom: push, the
\* covers of its other columns walking right, a nested search(), pop, the
\* uncovers of those columns in reverse; then uncover(c).  Gives the index
\* after the last event of the search, 0 when the record ends inside it at a
\* nested yield, and -1 when an event is not the expected one.
RECURSIVE EventsOfSearch(_, _, _)
RECURSIVE EventsOfRows(_, _, _, _, _)

AfterRow(log, j, c, cov, rows) ==
    IF j <= 0 THEN j
    ELSE IF j > Len(log) THEN 0
    ELSE IF /\ log[j] = <<"pop", Head(rows)>>
            /\ Matches(log, j + 1, "uncover", Reverse(OtherColumns(c, Head(rows))))
    THEN EventsOfRows(log, j + 1 + Len(OtherColumns(c, Head(rows))), c, cov, Tail(rows))
    ELSE -1

EventsOfRows(log, i, c, cov, rows) ==
    IF rows = <<>>
    THEN IF LogAt(log, i) = <<"uncover", c>> THEN i + 1 ELSE -1
    ELSE IF /\ LogAt(log, i) = <<"push", Head(rows)>>
            /\ Matches(log, i + 1, "cover", OtherColumns(c, Head(rows)))
    THEN AfterRow(log,
                  EventsOfSearch(log, i + 1 + Len(OtherColumns(c, Head(rows))),
                                 cov \cup SeqToSet(OtherColumns(c, Head(rows)))),
                  c, cov, rows)
    ELSE -1

EventsOfSearch(log, i, cov) ==
    IF LogAt(log, i)[1] = "cover"
    THEN IF /\ log[i][2] \in Headers(built) \ cov
            /\ built.is_primary[log[i][2]]
            /\ RowsLeft(log[i][2], cov) # <<>>
         THEN EventsOfRows(log, i + 1, log[i][2], cov \cup {log[i][2]},
                           RowsLeft(log[i][2], cov))
         ELSE -1
    ELSE i

\* C26: in a run of solve() every uncover is for the most recently covered
\* column not yet uncovered, and the recorded events are those of the nested
\* searches: the chosen column is covered first, each of its rows is tried top to bottom (push, covers
\* walking right, recursion, pop, uncovers in reverse), and the chosen column
\* is uncovered after its last row.  The record ends inside a search only
\* while the generator is suspended at a yield, and a finished run has
\* uncovered every column it covered.
C26_ProperNesting ==
    gen # NoGen =>
        /\ CoveredAfter(gen.log, 1, <<>>) # <<None>>
        /\ gen.done => CoveredAfter(gen.log, 1, <<>>) = <<>>
        /\ \/ EventsOfSearch(gen.log, 1, {}) = Len(gen.log) + 1
           \/ (EventsOfSearch(gen.log, 1, {}) = 0 /\ Suspended(gen))

\* A finished run on the matrix as built that yielded a solution of two rows,
\* tried more than one row of a column and covered the other columns of a row
\* of three.
C26_Witness ==
    /\ gen # NoGen
    /\ gen.done
    /\ OnBuilt
    /\ \E i \in DOMAIN emitted : Len(emitted[i].value) = 2
    /\ \E i \in DOMAIN gen.log :
          /\ gen.log[i][1] = "pop"
          /\ LogAt(gen.log, i + 1)[1] = "uncover"
          /\ LogAt(gen.log, i + 2)[1] = "uncover"
    /\ \E i \in DOMAIN gen.log :
          \E j \in DOMAIN gen.log :
             /\ i < j
             /\ gen.log[i][1] = "push"
             /\ gen.log[j][1] = "push"
             /\ CoveredAfter(SubSeq(gen.log, 1, i), 1, <<>>)
                  = CoveredAfter(SubSeq(gen.log, 1, j), 1, <<>>)

\* ------------------------------------------------------------------ exhaustion

\* C27: once a solve() iterator is exhausted, whatever the number of
\* solutions it yielded, solution_stack is empty and the matrix is exactly
\* the matrix solve() was called on (every link, every size, the rows and the
\* columns); and has_solution() returning False leaves the matrix as it was.
C27_ExhaustionRestores ==
    /\ (gen # NoGen /\ gen.done) => (gen.solution_stack = <<>> /\ dlx = pre)
    /\ (last = "has_solution" /\ result = FALSE) => dlx = pre

\* An exhausted iterator that yielded two solutions, after a search that
\* covered and uncovered columns.
C27_Witness ==
    /\ gen # NoGen
    /\ gen.done
    /\ Len(emitted) >= 2
    /\ Len(gen.log) >= 8
    /\ dlx = built

\* ------------------------------------------------------------------ effect of cover

\* The column the last _cover call was made on.
LastCovered == covered[Len(covered)]

\* Node n is in the vertical ring of its column, walking down from the header.
Linked(m, n) == InSeq(n, DownRing(m, m.column[n]))

\* Row r has a node in column c; and has one in the vertical ring of c.
HasNodeIn(m, r, c) == \E k \in RowNodes(m) : m.row_id[k] = r /\ m.column[k] = c
HasLinkedNodeIn(m, r, c) ==
    \E k \in RowNodes(m) : m.row_id[k] = r /\ m.column[k] = c /\ Linked(m, k)

\* The nodes of column col that the call unlinked.
Unlinked(col) ==
    {n \in RowNodes(dlx) : dlx.column[n] = col /\ Linked(expect, n) /\ ~Linked(dlx, n)}

\* c has left the header ring, which is otherwise as it was, and each other
\* column's size went down by the number of its nodes that were unlinked.
HeaderAndSizes ==
    /\ ~InSeq(LastCovered, HeaderRing(dlx))
    /\ HeaderRing(dlx) = SelectSeq(HeaderRing(expect), LAMBDA col : col # LastCovered)
    /\ \A col \in Headers(dlx) \ {LastCovered} :
          dlx.size[col] = expect.size[col] - Cardinality(Unlinked(col))

\* C28 as stated: after cover(c) on a column of the header ring, c is out of
\* the header ring, every row with a node in c has all its other nodes
\* unlinked from their columns, each other column's size is reduced by the
\* number of its nodes that were unlinked, and the rows with no node in c are
\* linked in all of their columns.
C28_CoverUnlinksRowsOfColumn ==
    last = "cover" =>
        /\ HeaderAndSizes
        /\ \A n \in RowNodes(dlx) :
              IF HasNodeIn(dlx, dlx.row_id[n], LastCovered)
              THEN dlx.column[n] # LastCovered => ~Linked(dlx, n)
              ELSE Linked(dlx, n)

\* C28, amended: the rows cover(c) removes are those with a node in the
\* vertical ring of c when it is called, that is, the rows of c that no
\* earlier cover has removed.  Each of them has all its other nodes unlinked,
\* each other column's size is reduced by the number of its nodes that were
\* unlinked, and every other node is linked or not as it was before the call;
\* the vertical ring of c itself is not changed.
C28_CoverUnlinksLinkedRows ==
    last = "cover" =>
        /\ HeaderAndSizes
        /\ \A n \in RowNodes(dlx) :
              IF HasLinkedNodeIn(expect, dlx.row_id[n], LastCovered)
              THEN dlx.column[n] # LastCovered => (Linked(expect, n) /\ ~Linked(dlx, n))
              ELSE Linked(dlx, n) = Linked(expect, n)
        /\ DownRing(dlx, LastCovered) = DownRing(expect, LastCovered)
        /\ dlx.size[LastCovered] = expect.size[LastCovered]

\* cover(c) while another column is covered, on a column with a row that the
\* earlier cover removed and a row that it did not.
C28_Witness ==
    /\ last = "cover"
    /\ Len(covered) >= 2
    /\ \E r \in RowIds(dlx) :
          HasNodeIn(dlx, r, LastCovered) /\ ~HasLinkedNodeIn(expect, r, LastCovered)
    /\ \E n \in RowNodes(dlx) : Unlinked(dlx.column[n]) # {}

\* ------------------------------------------------------------------ effect of add_row

\* The nodes the call allocated, and the one of them in column col.
NewNodes(m, m2) == DOMAIN m2.up \ DOMAIN m.up
NewIn(m, m2, col) == CHOOSE n \in NewNodes(m, m2) : m2.column[n] = col

\* The nodes of the new row in the order of the column names given.
NewRowNodes(m, m2, column_names) ==
    [i \in DOMAIN column_names |-> NewIn(m, m2, m.columns[column_names[i]])]

\* One new node per named column, carrying the row id, and no other.
OneNodePerColumn(m, m2, column_names, rid) ==
    /\ Cardinality(NewNodes(m, m2)) = Len(column_names)
    /\ \A i \in DOMAIN column_names :
          Cardinality({n \in NewNodes(m, m2) : m2.column[n] = m.columns[column_names[i]]}) = 1
    /\ \A n \in NewNodes(m, m2) : m2.row_id[n] = rid

\* Each named column has its new node last before the header, walking down,
\* and first walking up; every other column's ring is as it was.
AtBottom(m, m2, column_names) ==
    \A col \in Headers(m) :
        IF \E i \in DOMAIN column_names : m.columns[column_names[i]] = col
        THEN /\ DownRing(m2, col) = Append(DownRing(m, col), NewIn(m, m2, col))
             /\ UpRing(m2, col) = <<NewIn(m, m2, col)>> \o UpRing(m, col)
             /\ m2.size[col] = m.size[col] + 1
        ELSE /\ DownRing(m2, col) = DownRing(m, col)
             /\ UpRing(m2, col) = UpRing(m, col)
             /\ m2.size[col] = m.size[col]

\* The new nodes form one horizontal ring in the order given.
InOrder(m2, nodes) ==
    \A i \in DOMAIN nodes :
        /\ m2.right[nodes[i]] = nodes[(i % Len(nodes)) + 1]
        /\ m2.left[nodes[(i % Len(nodes)) + 1]] = nodes[i]

\* The payload is kept under the returned id, which no earlier row has.
Retained(m, m2, rid, row_data) ==
    /\ rid \notin DOMAIN m.rows
    /\ DOMAIN m2.rows = DOMAIN m.rows \cup {rid}
    /\ m2.rows[rid] = row_data
    /\ \A r \in DOMAIN m.rows : m2.rows[r] = m.rows[r]

RowAdded(m, m2, column_names, rid, row_data) ==
    /\ OneNodePerColumn(m, m2, column_names, rid)
    /\ AtBottom(m, m2, column_names)
    /\ InOrder(m2, NewRowNodes(m, m2, column_names))
    /\ Retained(m, m2, rid, row_data)

\* C29: add_row(cols, payload) with k existing, pairwise distinct column
\* names adds exactly one node to each named column, as the last node before
\* the header walking down; the size of each named column goes up by 1 and no
\* other size changes; the k nodes form one horizontal ring in the order
\* given; the payload is kept under the returned row id, and no earlier
\* add_row on the matrix returned that id.
C29_AddRow ==
    [][phase = "build" =>
          \A column_names \in RowChoices(dlx) :
              dlx' = add_row(dlx, column_names, RowData(dlx.row_counter))
              => RowAdded(dlx, dlx', column_names, dlx.row_counter, RowData(dlx.row_counter))]_vars

\* Two rows were added, the second with two nodes, the first of them below
\* a node of the first row.
C29_Witness ==
    /\ phase = "build"
    /\ dlx.row_counter = 2
    /\ \E col \in Headers(dlx) :
          /\ Len(DownRing(dlx, col)) = 2
          /\ dlx.row_id[DownRing(dlx, col)[2]] = 1
          /\ Len(RightRing(dlx, DownRing(dlx, col)[2])) >= 1
          /\ dlx.rows[1] = RowData(1)

\* ------------------------------------------------------------------ the packing matrix

\* The names of the primary or of the secondary columns of a matrix.
HeadersOf(m, primary) == {c \in Headers(m) : m.is_primary[c] = primary}
ColumnsNamed(m, primary) == {m.name[c] : c \in HeadersOf(m, primary)}

\* The nodes of a row and the names of the columns they are in.
NodesOfRow(m, r) == {n \in RowNodes(m) : m.row_id[n] = r}
RowNames(m, r) == {m.name[m.column[n]] : n \in NodesOfRow(m, r)}

CellNames(cells) == {CellName(c.x, c.y) : c \in cells}

\* The required piece instances: (shape id, instance) for the catalogued ids.
PieceInstances(pk, r) ==
    {inst \in (DOMAIN r.required_pieces \cap DOMAIN pk.shapes) \X (0..(MaxCount - 1)) :
        inst[2] < r.required_pieces[inst[1]]}

\* The rows of one instance, and the rows it is to have: one per distinct
\* oriented copy of the shape at an anchor where it lies inside the region.
RowsOfInstance(m, inst) == {r \in RowIds(m) : PieceName(inst[1], inst[2]) \in RowNames(m, r)}
RowsToHave(pk, r, inst) ==
    {{PieceName(inst[1], inst[2])} \cup CellNames(img) :
        img \in Fits(pk.shapes[inst[1]].cells, r.width, r.height)}

MatrixOf(pk, r, m) ==
    /\ ColumnsNamed(m, FALSE) = CellNames(Grid(r.width, r.height))
    /\ Cardinality(HeadersOf(m, FALSE)) = r.width * r.height
    /\ ColumnsNamed(m, TRUE) = {PieceName(inst[1], inst[2]) : inst \in PieceInstances(pk, r)}
    /\ Cardinality(HeadersOf(m, TRUE)) = Len(RequiredCells(pk.shapes, r))
    /\ \A inst \in PieceInstances(pk, r) :
          /\ {RowNames(m, row) : row \in RowsOfInstance(m, inst)} = RowsToHave(pk, r, inst)
          /\ Cardinality(RowsOfInstance(m, inst)) = Cardinality(RowsToHave(pk, r, inst))
    /\ \A row \in RowIds(m) :
          /\ Cardinality({inst \in PieceInstances(pk, r) : row \in RowsOfInstance(m, inst)}) = 1
          /\ Cardinality(NodesOfRow(m, row)) = Cardinality(RowNames(m, row))
          /\ RowNames(m, row) \subseteq DOMAIN m.columns

\* C30: the matrix built by can_pack/find_packing has exactly width x height
\* secondary columns, one per grid cell, and exactly one primary column per
\* required piece instance; each instance has exactly one row per (distinct
\* orientation, anchor) pair whose bounding box fits in the region, and each
\* row names the instance's primary column and the columns of the cells the
\* placement occupies, all of which exist.
C30_PackingMatrix ==
    (packed # NoCall /\ packed.out.dlx # NoDlx) =>
        MatrixOf(packer, region, packed.out.dlx)

\* A matrix for a 3 x 1 region and two instances: one of a shape with two
\* orientations, only one of which fits (at two anchors), and one of a shape
\* that fits at three anchors.
C30_Witness ==
    /\ packed # NoCall /\ packed.out.dlx # NoDlx
    /\ region.width = 3 /\ region.height = 1
    /\ Cardinality(PieceInstances(packer, region)) = 2
    /\ \E inst \in PieceInstances(packer, region) :
          /\ Cardinality(packer.orientations[inst[1]]) = 2
          /\ Cardinality(RowsOfInstance(packed.out.dlx, inst)) = 2
    /\ \E inst \in PieceInstances(packer, region) :
          Cardinality(RowsOfInstance(packed.out.dlx, inst)) = 3

\* ------------------------------------------------------------------ order of the rows

\* The add_column and add_row calls that built a matrix: the columns in the
\* order of their allocation, and for each row id the column names in the
\* order of the row's nodes.
ColumnsAdded(m) == Ascending(Headers(m))
RowNodesInOrder(m, r) == Ascending(NodesOfRow(m, r))
RowAsAdded(m, r) == [i \in DOMAIN RowNodesInOrder(m, r) |-> m.name[m.column[RowNodesInOrder(m, r)[i]]]]

RECURSIVE ColumnsAgain(_, _, _)
ColumnsAgain(m, from, cols) ==
    IF cols = <<>> THEN m
    ELSE ColumnsAgain(add_column(m, from.name[Head(cols)], from.is_primary[Head(cols)]),
                      from, Tail(cols))

\* The rows of from added again in the order rids, each with its payload.
RECURSIVE RowsAgain(_, _, _)
RowsAgain(m, from, rids) ==
    IF rids = <<>> THEN m
    ELSE RowsAgain(add_row(m, RowAsAdded(from, Head(rids)), from.rows[Head(rids)]),
                   from, Tail(rids))

\* The matrix the same calls build when the add_row calls are made in the
\* order perm[0], perm[1], ...
Reordered(m, perm) ==
    RowsAgain(ColumnsAgain(NewMatrix, m, ColumnsAdded(m)), m,
              [i \in 1..m.row_counter |-> perm[i - 1]])

RowOrders(m) == Permutations(RowIds(m))

\* list(m.solve(find_all=True)): the iterator pulled until it is exhausted.
RECURSIVE Drain(_, _)
Drain(r, lists) ==
    IF r.value.stop THEN lists
    ELSE Drain(Resume(r.m, r.g), Append(lists, r.value.list))
SolveAll(m) == Drain(Resume(m, NewGen(TRUE)), <<>>)

\* Solutions as sets of payloads.
AsSets(lists) == {SeqToSet(lists[i]) : i \in DOMAIN lists}
EmittedLists == [i \in DOMAIN emitted |-> emitted[i].value]

\* The same solutions, each as often, whatever their order.
SameSolutions(lists, others) == AsSets(lists) = AsSets(others) /\ Len(lists) = Len(others)

\* One call of solve() or has_solution() on a matrix as built, the iterator
\* pulled as far as the consumer likes.
NextOrder ==
    \/ AddColumn
    \/ AddRow
    \/ (hist = <<>> /\ last = "idle" /\ Solve)
    \/ Pull
    \/ (hist = <<>> /\ last = "idle" /\ HasSolution)

SpecOrder == Init /\ [][NextOrder]_vars

\* C31: the result of has_solution() and the set of solutions of an
\* exhaustive solve() are the same for every order in which the rows could
\* have been added; only the order of the solutions may differ.
C31_RowOrderIndependent ==
    OnBuilt =>
        /\ last \in {"has_solution", "has_solution_abandon"} =>
              \A perm \in RowOrders(built) :
                  has_solution(Reordered(built, perm)).value = result
        /\ (gen # NoGen /\ gen.done) =>
              \A perm \in RowOrders(built) :
                  SameSolutions(SolveAll(Reordered(built, perm)), EmittedLists)

\* An exhaustive solve() yielded two solutions, and with the rows added in
\* another order the same two are yielded with the other one first.
C31_Witness ==
    /\ OnBuilt /\ gen # NoGen /\ gen.done
    /\ Len(emitted) = 2
    /\ \E perm \in RowOrders(built) :
          /\ SolveAll(Reordered(built, perm))[1] # emitted[1].value
          /\ SolveAll(Reordered(built, perm))[1] = emitted[2].value

\* ------------------------------------------------------------------ order of the header ring

\* The names of the columns met walking right from the root until the root
\* is met again.
NamesFromRoot(m) == [i \in DOMAIN RightRing(m, Root) |-> m.name[RightRing(m, Root)[i]]]

\* The names given to add_column so far, in the order of the calls.
NamesAdded(m) == SubSeq(ColumnNames, 1, Cardinality(Headers(m)))

\* C32: after any sequence of add_column calls, and again after any properly
\* nested cover/uncover sequence that has been undone, walking right from the
\* root header visits every added column exactly once, in the order in which
\* the columns were added, and then is back at the root; the root is never
\* one of the columns to cover.
C32_HeaderRingInsertionOrder ==
    /\ covered = <<>> =>
          /\ Closed(RightRing(dlx, Root))
          /\ NamesFromRoot(dlx) = NamesAdded(dlx)
          /\ \A c \in Headers(dlx) :
                Cardinality({i \in DOMAIN RightRing(dlx, Root) : RightRing(dlx, Root)[i] = c}) = 1
    /\ ~InSeq(Root, HeaderRing(dlx))
    /\ ~InSeq(Root, covered)

\* Three columns were added, one of them with two rows, and every cover made
\* since has been undone by its uncover.
C32_Witness ==
    /\ covered = <<>>
    /\ last = "uncover"
    /\ NamesFromRoot(dlx) = <<"a", "b", "c">>
    /\ \E c \in Headers(dlx) : dlx.size[c] = 2

\* ------------------------------------------------------------------ Z3 packer

\* Z3Packer.__init__: the areas and, per shape, the list of the cell sets of
\* its orientations (in the iteration order of the set).
NewZ3Packer(shapes, order) ==
    [kind |-> "z3packer", shapes |-> shapes,
     shape_areas |-> [sid \in DOMAIN shapes |-> area(shapes[sid])],
     orientations |-> [sid \in DOMAIN shapes |->
                          [i \in DOMAIN Iterate(all_orientations(shapes[sid]), order) |->
                              Iterate(all_orientations(shapes[sid]), order)[i].cells]]]

\* sum(self.shape_areas[sid] * cnt for sid, cnt in items if sid in self.shapes)
RECURSIVE Z3TotalArea(_, _, _)
Z3TotalArea(zp, required_pieces, ids) ==
    IF ids = <<>> THEN 0
    ELSE (IF Head(ids) \in DOMAIN zp.shapes
          THEN zp.shape_areas[Head(ids)] * required_pieces[Head(ids)] ELSE 0)
           + Z3TotalArea(zp, required_pieces, Tail(ids))

\* all(c == 0 for c in region.required_pieces.values())
AllCountsZero(required_pieces) == \A sid \in DOMAIN required_pieces : required_pieces[sid] = 0

\* tuple((c.y + py) * region.width + (c.x + px) for c in cells), as the set of
\* its flat indices.
Flat(cells, px, py, w) == {(c.y + py) * w + (c.x + px) : c \in cells}

\* The placements of one orientation: for py in range(..): for px in range(..).
Z3PlacementsOf(sid, cells, r) ==
    Concat([i \in DOMAIN Range(r.height - (MaxOf({c.y : c \in cells}) + 1) + 1) |->
              [j \in DOMAIN Range(r.width - (MaxOf({c.x : c \in cells}) + 1) + 1) |->
                  [shape_id |-> sid,
                   cells |-> Flat(cells,
                                  Range(r.width - (MaxOf({c.x : c \in cells}) + 1) + 1)[j],
                                  Range(r.height - (MaxOf({c.y : c \in cells}) + 1) + 1)[i],
                                  r.width)]]])

\* The placements of one required shape; none for a count of 0 or less or a
\* shape id without orientations.
Z3PlacementsOfShape(zp, r, sid) ==
    IF r.required_pieces[sid] <= 0 \/ sid \notin DOMAIN zp.orientations THEN <<>>
    ELSE Concat([i \in DOMAIN zp.orientations[sid] |->
                    Z3PlacementsOf(sid, zp.orientations[sid][i], r)])

\* "Generate all placements"
Z3Placements(zp, r) ==
    Concat([i \in DOMAIN Items(r.required_pieces) |->
              Z3PlacementsOfShape(zp, r, Items(r.required_pieces)[i])])

\* placements_by_shape[sid], as the indices of the shape's variables.
VarsOfShape(placements, sid) == {i \in DOMAIN placements : placements[i].shape_id = sid}

\* "if len(shape_vars) < count: return False", for some required shape.
TooFewPlacements(placements, r) ==
    \E sid \in DOMAIN r.required_pieces :
        r.required_pieces[sid] > 0
          /\ Cardinality(VarsOfShape(placements, sid)) < r.required_pieces[sid]

\* Constraint 1: exactly count of the shape's variables are true.
ExactlyCount(placements, r, chosen) ==
    \A sid \in DOMAIN r.required_pieces :
        r.required_pieces[sid] > 0 =>
            Cardinality(chosen \cap VarsOfShape(placements, sid)) = r.required_pieces[sid]

\* The solver with constraint 2 left out.
CellsUnconstrained(placements, chosen) == TRUE

\* Constraint 2: at most one of the variables covering a cell is true.
CellsAtMostOnce(placements, chosen) ==
    \A i, j \in chosen : i # j => placements[i].cells \cap placements[j].cells = {}

\* The assignments that make exactly count variables of each shape true.
RECURSIVE ChoicesPerShape(_, _, _)
ChoicesPerShape(placements, r, ids) ==
    IF ids = <<>> THEN {{}}
    ELSE {mine \cup others :
            mine \in {S \in SUBSET VarsOfShape(placements, Head(ids)) :
                        Cardinality(S) = (IF r.required_pieces[Head(ids)] > 0
                                          THEN r.required_pieces[Head(ids)] ELSE 0)},
            others \in ChoicesPerShape(placements, r, Tail(ids))}

\* solver.check() == z3.sat: some assignment of the placement variables
\* satisfies both groups of constraints.
Z3Sat(placements, r) ==
    \E chosen \in ChoicesPerShape(placements, r, Items(r.required_pieces)) :
        /\ ExactlyCount(placements, r, chosen)
        /\ CellsAtMostOnce(placements, chosen)

Z3Solve(placements, r) ==
    IF TooFewPlacements(placements, r) THEN FALSE ELSE Z3Sat(placements, r)

\* Z3Packer.can_pack
z3_can_pack(zp, r) ==
    IF Z3TotalArea(zp, r.required_pieces, Items(r.required_pieces)) > RegionArea(r) THEN FALSE
    ELSE IF AllCountsZero(r.required_pieces) THEN TRUE
    ELSE Z3Solve(Z3Placements(zp, r), r)

\* Z3Packer(shapes).can_pack(region) for the shapes and the region of the
\* PolyominoPacker call just made; other keeps what that call gave.
Z3CanPack ==
    /\ packed # NoCall
    /\ packed.call = "can_pack"
    /\ \E order \in {"fwd", "rev"} :
         packed' = [call |-> "z3_can_pack",
                    out |-> [kind |-> "return", raised |-> "",
                             value |-> z3_can_pack(NewZ3Packer(packer.shapes, order), region),
                             dlx |-> NoDlx, generated |-> 0],
                    other |-> packed.out]
    /\ UNCHANGED <<packer, region>>
    /\ UNCHANGED <<dlxVars, shapeVars, setVars>>

NextCross == MakePacker \/ CanPack \/ Z3CanPack

SpecCross == Init /\ [][NextCross]_vars

C33_WitnessTrue ==
    /\ packed # NoCall /\ packed.call = "z3_can_pack" /\ AllCatalogued(packer, region)
    /\ packed.out.value = TRUE /\ packed.other.value = TRUE
    /\ \E sid \in DOMAIN region.required_pieces : region.required_pieces[sid] = 2
    /\ \E sid \in DOMAIN region.required_pieces : region.required_pieces[sid] = 1

\* ------------------------------------------------------------------ closure of the orientations

\* o has the area and the ids of p.
SameKind(o, p) ==
    area(o) = area(p) /\ o.shape_id = p.shape_id /\ o.instance_id = p.instance_id

\* C34: for a normalized polyomino p and any o in p.all_orientations(),
\* o.rotate_cw() and o.flip_horizontal() are in p.all_orientations() too,
\* o.all_orientations() is the same set, and o has the area, the shape_id and
\* the instance_id of p.
C34_OrientationsClosed ==
    (shapeCall # NoCall /\ shapeCall.call = "all_orientations"
        /\ Normalized(shapeCall.before)) =>
        \A o \in shapeCall.value :
            /\ rotate_cw(o) \in shapeCall.value
            /\ flip_horizontal(o) \in shapeCall.value
            /\ all_orientations(o) = shapeCall.value
            /\ SameKind(o, shapeCall.before)

\* all_orientations() of a normalized shape with instance_id 1 and eight
\* orientations, the caller carrying on with another one than the receiver.
C34_Witness ==
    /\ shapeCall # NoCall
    /\ shapeCall.call = "all_orientations"
    /\ Normalized(shapeCall.before)
    /\ shapeCall.before.instance_id = 1
    /\ Cardinality(shapeCall.value) = 8
    /\ shape # shapeCall.before

\* ------------------------------------------------------------------ what cover and uncover leave alone

\* The column a step from m to m2 covers or uncovers, given the stacks of
\* covered columns before and after it.
ColumnOfCall(before, after) ==
    IF Len(after) > Len(before) THEN after[Len(after)] ELSE before[Len(before)]

\* The left/right links of every row node, the up/down links of the header
\* and of the nodes of column col and its size, and the payloads and the map
\* from names to columns are in m2 as they are in m.
LeftAlone(m, m2, col) ==
    /\ \A n \in RowNodes(m) : m2.left[n] = m.left[n] /\ m2.right[n] = m.right[n]
    /\ \A n \in DOMAIN m.up :
          m.column[n] = col => (m2.up[n] = m.up[n] /\ m2.down[n] = m.down[n])
    /\ m2.size[col] = m.size[col]
    /\ m2.rows = m.rows
    /\ m2.columns = m.columns

\* C35: cover and uncover never change the left/right links of a row node,
\* never change the up/down links or the size of the column they are called
\* on, and never change the stored payloads or the map from names to columns.
C35_CoverFrame ==
    [][covered' # covered => LeftAlone(dlx, dlx', ColumnOfCall(covered, covered'))]_vars

\* An inner cover has been undone while an outer cover still holds a row of
\* two or more nodes out of another column.
C35_Witness ==
    /\ last = "uncover"
    /\ Len(covered) = 1
    /\ \E n \in RowNodes(dlx) :
          /\ ~Linked(dlx, n)
          /\ dlx.right[n] # n
          /\ dlx.column[dlx.right[n]] = covered[1]

\* ------------------------------------------------------------------ termination

\* A consumer that keeps pulling: one solve() iterator on the matrix as
\* built, and next() on it for as long as it is not exhausted.
NextLive == AddColumn \/ AddRow \/ Solve \/ Pull

\* next() can be called: there is an iterator and it is not exhausted.  A
\* call always changes the generator, so this is ENABLED <<Pull>>_vars.
PullPending == gen # NoGen /\ ~gen.done

\* The consumer does not stop pulling while the iterator is not exhausted:
\* weak fairness of Pull, WF_vars(Pull), with its ENABLED written out as
\* PullPending.
PullFairness == []<>(~PullPending) \/ []<><<Pull>>_vars

SpecLive == Init /\ [][NextLive]_vars /\ PullFairness

\* How many events of kind, on columns that are primary or on any argument,
\* are among the first k of the record.
EventsUpTo(log, k, kind) == Cardinality({i \in 1..k : log[i][1] = kind})
PrimaryEventsUpTo(log, k, kind) ==
    Cardinality({i \in 1..k : log[i][1] = kind /\ built.is_primary[log[i][2]]})

\* The depth of the recursion after k events (rows pushed and not popped),
\* and the primary columns covered and not uncovered then.
DepthAt(log, k) == EventsUpTo(log, k, "push") - EventsUpTo(log, k, "pop")
PrimaryCoveredAt(log, k) ==
    PrimaryEventsUpTo(log, k, "cover") - PrimaryEventsUpTo(log, k, "uncover")

\* No row is pushed twice on the same stack of rows: an activation of
\* search() tries a row of its column at most once.
RECURSIVE TriedOnce(_, _, _, _)
TriedOnce(log, i, stack, seen) ==
    IF i > Len(log) THEN TRUE
    ELSE IF log[i][1] = "push"
    THEN IF <<stack, log[i][2]>> \in seen THEN FALSE
         ELSE TriedOnce(log, i + 1, Append(stack, log[i][2]),
                        seen \cup {<<stack, log[i][2]>>})
    ELSE IF log[i][1] = "pop" THEN TriedOnce(log, i + 1, Pop(stack), seen)
    ELSE TriedOnce(log, i + 1, stack, seen)

\* Every level of the recursion has covered a primary column of its own, so
\* the depth is at most the number of primary columns, and no level tries a
\* row twice.
SearchBounded ==
    gen # NoGen =>
        /\ \A k \in 0..Len(gen.log) :
              /\ DepthAt(gen.log, k) <= PrimaryCoveredAt(gen.log, k)
              /\ PrimaryCoveredAt(gen.log, k) <= Cardinality(HeadersOf(built, TRUE))
        /\ TriedOnce(gen.log, 1, <<>>, {})

\* C36: a solve() iterator that is pulled repeatedly is eventually exhausted;
\* every recursive call of the search covers at least one primary column, so
\* the depth of the recursion is at most the number of primary columns, and
\* each level tries each row of its column at most once.
C36_EventuallyExhausted ==
    /\ []SearchBounded
    /\ (gen # NoGen) ~> (gen # NoGen /\ gen.done)

\* An exhausted iterator that went two levels deep, tried three rows in all
\* and yielded a solution on its way.
C36_Witness ==
    /\ gen # NoGen /\ gen.done
    /\ emitted # <<>>
    /\ EventsUpTo(gen.log, Len(gen.log), "push") >= 3
    /\ \E k \in 0..Len(gen.log) : DepthAt(gen.log, k) = 2

\* ------------------------------------------------------------------ disjoint set

Elems == 1..MaxElems

\* How a DisjointSet or Subset call ends: it returns the Subset of item v,
\* raises e, or does not come back (find walking a cycle of parents).  d is
\* the DisjointSet as the call leaves it.
SetReturned(d, v) == [kind |-> "return", raised |-> "", value |-> v, ds |-> d]
SetRaised(d, e) == [kind |-> "raise", raised |-> e, value |-> None, ds |-> d]
SetHangs(d) == [kind |-> "hang", raised |-> "", value |-> None, ds |-> d]

\* find's while loop: the items appended to path, ending in None when the
\* loop does not end.
RECURSIVE FindPath(_, _, _)
FindPath(parents, item, fuel) ==
    IF parents[item] = item THEN <<>>
    ELSE IF fuel = 0 THEN <<None>>
    ELSE <<item>> \o FindPath(parents, parents[item], fuel - 1)

\* The item the while loop ends on.
RootFrom(parents, item, path) == IF path = <<>> THEN item ELSE parents[path[Len(path)]]

\* "path compression": for p in path: self.parents[p] = item
Compress(parents, path, root) ==
    [i \in DOMAIN parents |-> IF InSeq(i, path) THEN root ELSE parents[i]]

FindAlong(d, item, path) ==
    IF ~Closed(path) THEN SetHangs(d)
    ELSE SetReturned([d EXCEPT !.parents = Compress(d.parents, path,
                                                    RootFrom(d.parents, item, path))],
                     RootFrom(d.parents, item, path))

\* DisjointSet.find (also __getitem__)
ds_find(d, item) ==
    IF item \notin DOMAIN d.parents THEN SetRaised(d, "KeyError")
    ELSE FindAlong(d, item, FindPath(d.parents, item, Cardinality(DOMAIN d.parents)))

\* if item not in self: self.parents[item] = item; self.ranks[item] = 0
Ensured(d, item) ==
    IF item \in DOMAIN d.parents THEN d
    ELSE [parents |-> (item :> item) @@ d.parents, ranks |-> (item :> 0) @@ d.ranks]

\* DisjointSet.add
ds_add(d, item) == ds_find(Ensured(d, item), item)

\* a, b = self.item, other.item; if ranks[a] < ranks[b]: a, b = b, a
RankOrdered(d, self, other) ==
    IF d.ranks[self] < d.ranks[other] THEN <<other, self>> ELSE <<self, other>>

\* if ranks[a] == ranks[b]: ranks[a] += 1
Bump(d, a, b) == IF d.ranks[a] = d.ranks[b] THEN [d EXCEPT !.ranks[a] = @ + 1] ELSE d

\* assert any(i is p for i, p in self.disjoint_set.parents.items())
Asserted(d, a) ==
    IF \E i \in DOMAIN d.parents : d.parents[i] = i THEN SetReturned(d, a)
    ELSE SetRaised(d, "AssertionError")

\* self.disjoint_set.parents[b] = a, then the ranks and the assertion.  The
\* rank test reads the ranks as they are after parents[b] = a, which does not
\* change them.
UnionOrdered(d, ab) == Asserted(Bump([d EXCEPT !.parents[ab[2]] = ab[1]], ab[1], ab[2]), ab[1])

\* Subset.union; self and other are the items of the two handles.  Both
\* handles belong to the one DisjointSet there is, so the ValueError branch is
\* not taken.
subset_union(d, self, other) ==
    IF other = self THEN SetReturned(d, self)
    ELSE UnionOrdered(d, RankOrdered(d, self, other))

\* self.union(r), r being how the call that gives the other handle ended.
UnionWith(self, r) == IF r.kind # "return" THEN r ELSE subset_union(r.ds, self, r.value)

\* Subset.add
subset_add(d, self, item) == UnionWith(self, ds_find(Ensured(d, item), item))

\* DisjointSet.union: self.add(item1).union(self.add(item2))
UnionSecond(r1, item2) ==
    IF r1.kind # "return" THEN r1 ELSE UnionWith(r1.value, ds_add(r1.ds, item2))
ds_union(d, item1, item2) == UnionSecond(ds_add(d, item1), item2)

\* The caller goes on after a call that returned or raised KeyError; it stops
\* after a failed assertion and cannot go on after a call that hangs.
CanCall ==
    /\ IF setCall = NoCall THEN TRUE
       ELSE setCall.kind = "return" \/ setCall.raised = "KeyError"
    /\ \A i \in DOMAIN ds.ranks : ds.ranks[i] < MaxRank

\* The call op(args) ended as r; a returned handle is kept, and pair is what
\* a union that ran to its end has joined.
SetDone(op, args, r, pair) ==
    /\ ds' = r.ds
    /\ held' = IF r.kind = "return" THEN held \cup {r.value} ELSE held
    /\ joined' = IF r.kind = "return" \/ r.raised = "AssertionError"
                 THEN joined \cup pair ELSE joined
    /\ setCall' = [call |-> op, args |-> args, kind |-> r.kind, raised |-> r.raised,
                   value |-> r.value]
    /\ UNCHANGED <<dlxVars, packVars, shapeVars>>

\* handle = ds.add(item)
SetAdd ==
    /\ CanCall
    /\ \E item \in Elems : SetDone("add", <<item>>, ds_add(ds, item), {})

\* handle = ds.find(item), or ds[item]
SetFind ==
    /\ CanCall
    /\ \E item \in Elems : SetDone("find", <<item>>, ds_find(ds, item), {})

\* handle = ds.union(item1, item2)
SetUnion ==
    /\ CanCall
    /\ \E item1, item2 \in Elems :
         SetDone("union", <<item1, item2>>, ds_union(ds, item1, item2), {{item1, item2}})

\* handle = h1.union(h2) on two handles obtained earlier
SubsetUnion ==
    /\ CanCall
    /\ \E self, other \in held :
         SetDone("Subset.union", <<self, other>>, subset_union(ds, self, other),
                 {{self, other}})

\* handle = h.add(item) on a handle obtained earlier
SubsetAdd ==
    /\ CanCall
    /\ \E self \in held, item \in Elems :
         SetDone("Subset.add", <<self, item>>, subset_add(ds, self, item), {{self, item}})

NextSet == SetAdd \/ SetFind \/ SetUnion \/ SubsetUnion \/ SubsetAdd

SpecSet == Init /\ [][NextSet]_vars

\* The items connected to those of S by the pairs joined so far.
Neighbours(S) == S \cup {x \in Elems : \E y \in S : {x, y} \in joined}
RECURSIVE Grow(_)
Grow(S) == IF Neighbours(S) = S THEN S ELSE Grow(Neighbours(S))
Connected(a, b) == b \in Grow({a})

\* find(item) comes back, and the item of the Subset it gives.
FindReturns(item) == Closed(FindPath(ds.parents, item, Cardinality(DOMAIN ds.parents)))
RootOf(item) ==
    RootFrom(ds.parents, item, FindPath(ds.parents, item, Cardinality(DOMAIN ds.parents)))

\* C37: after any sequence of DisjointSet.add, DisjointSet.union,
\* Subset.union and Subset.add calls, find gives equal Subsets for two items
\* if and only if the unions made so far connect them, also when a union is
\* called on a handle obtained before an earlier union changed its root; and
\* the assertion in Subset.union never fails.
C37_SameSubsetIffConnected ==
    /\ setCall # NoCall => setCall.raised # "AssertionError"
    /\ \A a, b \in DOMAIN ds.parents :
          /\ FindReturns(a)
          /\ FindReturns(b) => ((RootOf(a) = RootOf(b)) <=> Connected(a, b))

====
